---- MODULE Spec2Model ----
(***************************************************************************)
(* A model of the validating XML parser of src/src (parser.cpp, utils.cpp, *)
(* validate.cpp).  Characters are code points (Char = int), strings are    *)
(* sequences of code points, and every parsing routine is an operator that *)
(* threads the parser state: a record whose field err carries the first    *)
(* exception thrown ("" while none was thrown).                            *)
(***************************************************************************)
EXTENDS Integers, Sequences, FiniteSets, TLC

(***************************************************************************)
(* The state.  parser is the Parser object; pc is the position of the      *)
(* running routine; scenario is the document given to it.                  *)
(*   Parser::parse_document: document and its three flags; frames is the   *)
(*   stack of the active calls of parse_element (the element being built,  *)
(*   char_data, general_entity_stack_size_before), c is the character      *)
(*   read by the current round of its loop; closed records, for every      *)
(*   element whose end tag was accepted, the entities its two tags were    *)
(*   read in.                                                              *)
(*   The reading loop: delivered, the characters read so far.              *)
(*   A routine run on its own: returned, what it returned.                 *)
(***************************************************************************)
VARIABLES parser, pc, scenario, document, xml_declaration_possible,
          doctype_declaration_seen, root_seen, frames, c, closed, delivered,
          returned

\* The call of a routine of the parser: Run("routine", <<arguments>>).
RECURSIVE Run(_, _)

(***************************************************************************)
(* Character constants (utils.h).                                          *)
(***************************************************************************)
LEFT_ANGLE_BRACKET == 60
RIGHT_ANGLE_BRACKET == 62
LEFT_SQUARE_BRACKET == 91
RIGHT_SQUARE_BRACKET == 93
LEFT_PARENTHESIS == 40
RIGHT_PARENTHESIS == 41
SOLIDUS == 47
EQUAL == 61
SINGLE_QUOTE == 39
DOUBLE_QUOTE == 34
AMPERSAND == 38
EXCLAMATION_MARK == 33
QUESTION_MARK == 63
HYPHEN == 45
ASTERISK == 42
PLUS == 43
COMMA == 44
VERTICAL_BAR == 124
OCTOTHORPE == 35
SPACE == 32
PERCENT_SIGN == 37
SEMI_COLON == 59
CARRIAGE_RETURN == 13
LINE_FEED == 10
HTAB == 9
INT_MAX == 2147483647
NO_CHAR == -1

\* The code points of the characters the inputs of this model are written in.
Code ==
  [ TAB |-> 9, LF |-> 10, CR |-> 13, SP |-> 32, BANG |-> 33, DQ |-> 34,
    HASH |-> 35, PCT |-> 37, AMP |-> 38, SQ |-> 39, LPAR |-> 40, RPAR |-> 41,
    STAR |-> 42, PLUSS |-> 43, COMMA |-> 44, MINUS |-> 45, DOT |-> 46,
    SLASH |-> 47, D0 |-> 48, D1 |-> 49, D2 |-> 50, D3 |-> 51, D4 |-> 52,
    D5 |-> 53, D6 |-> 54, D7 |-> 55, D8 |-> 56, D9 |-> 57, COLON |-> 58,
    SEMI |-> 59, LT |-> 60, EQ |-> 61, GT |-> 62, QM |-> 63,
    A |-> 65, B |-> 66, C |-> 67, D |-> 68, E |-> 69, F |-> 70, G |-> 71,
    H |-> 72, I |-> 73, J |-> 74, K |-> 75, L |-> 76, M |-> 77, N |-> 78,
    O |-> 79, P |-> 80, Q |-> 81, R |-> 82, S |-> 83, T |-> 84, U |-> 85,
    V |-> 86, W |-> 87, X |-> 88, Y |-> 89, Z |-> 90,
    LBRK |-> 91, RBRK |-> 93, USCORE |-> 95,
    a |-> 97, b |-> 98, c |-> 99, d |-> 100, e |-> 101, f |-> 102,
    g |-> 103, h |-> 104, i |-> 105, j |-> 106, k |-> 107, l |-> 108,
    m |-> 109, n |-> 110, o |-> 111, p |-> 112, q |-> 113, r |-> 114,
    s |-> 115, t |-> 116, u |-> 117, v |-> 118, w |-> 119, x |-> 120,
    y |-> 121, z |-> 122, BAR |-> 124 ]

\* The string whose characters the tuple names: Txt of "a", "LT" is a<.
Txt(names) == [ii \in 1..Len(names) |-> Code[names[ii]]]

RECURSIVE Cat(_)
\* The concatenation of a sequence of strings.
Cat(ss) == IF ss = <<>> THEN <<>> ELSE Head(ss) \o Cat(Tail(ss))

Last(sq) == sq[Len(sq)]
Front(sq) == SubSeq(sq, 1, Len(sq) - 1)
Range(sq) == {sq[ii] : ii \in 1..Len(sq)}

(***************************************************************************)
(* Character classes (utils.h / utils.cpp).                                *)
(***************************************************************************)
WHITESPACE == <<SPACE, HTAB, CARRIAGE_RETURN, LINE_FEED>>

is_whitespace(ch) == ch \in Range(WHITESPACE)

CHARACTER_RANGES ==
  { <<9, 10>>, <<13, 13>>, <<32, 55295>>, <<57344, 65533>>, <<65536, 1114111>> }

NAME_START_CHARACTER_RANGES ==
  { <<58, 58>>, <<65, 90>>, <<95, 95>>, <<97, 122>>, <<192, 214>>,
    <<216, 246>>, <<248, 767>>, <<880, 893>>, <<895, 8191>>, <<8204, 8205>>,
    <<8304, 8591>>, <<11264, 12271>>, <<12289, 55295>>, <<63744, 64975>>,
    <<65008, 65533>>, <<65536, 983039>> }

NAME_CHARACTER_RANGES ==
  NAME_START_CHARACTER_RANGES \cup
  { <<45, 46>>, <<48, 57>>, <<183, 183>>, <<768, 879>>, <<8255, 8256>> }

in_any_character_range(ch, ranges) ==
  \E rg \in ranges : ch >= rg[1] /\ ch <= rg[2]

valid_character(ch) == in_any_character_range(ch, CHARACTER_RANGES)
valid_name_start_character(ch) ==
  in_any_character_range(ch, NAME_START_CHARACTER_RANGES)
valid_name_character(ch) == in_any_character_range(ch, NAME_CHARACTER_RANGES)

ToLower(ch) == IF ch >= 65 /\ ch <= 90 THEN ch + 32 ELSE ch


\* What the C library's classification table yields for the characters it
\* has no entry for: std::isdigit and std::isxdigit of a Char above 255 read
\* beyond the table, which is undefined behaviour.  digit and xdigit are the
\* sets of such characters for which the read finds the bit set, trap the
\* set of those for which the read faults.  The field ctype_beyond of a
\* parser holds the choice for its run.
Beyond(digit, xdigit, trap) == [digit |-> digit, xdigit |-> xdigit, trap |-> trap]
NoneBeyond == Beyond({}, {}, {})

(***************************************************************************)
(* The parser object (parser.h): the input stream with its read position,  *)
(* the one-character lookahead, the two entity stacks and the flags.       *)
(* A stack is a sequence whose last element is the top.  An external       *)
(* entity stream wraps a parser of its own over the file's bytes.  The     *)
(* field files is the file system: a function from system identifiers to   *)
(* the bytes of the file of that name.                                     *)
(***************************************************************************)
NewParser(bytes) ==
  [ inp |-> bytes, pos |-> 0, previous_char |-> NO_CHAR,
    general_entity_stack |-> <<>>, parameter_entity_stack |-> <<>>,
    general_entity_names |-> {}, parameter_entity_names |-> {},
    general_entity_active |-> FALSE,
    just_parsed_character_reference |-> FALSE,
    parameter_entity_active |-> FALSE,
    just_parsed_carriage_return |-> FALSE,
    external_dtd_content_active |-> FALSE,
    standalone |-> FALSE, files |-> <<>>, ctype_beyond |-> NoneBeyond,
    err |-> "" ]

NoParser == [ inp |-> <<>>, pos |-> 0, previous_char |-> NO_CHAR, err |-> "" ]

Fail(P, msg) == [P EXCEPT !.err = msg]
Failed(P) == P.err # ""
\* The result of a routine that returns a character.
Ret(P, ch) == [p |-> P, c |-> ch]
Thrown(P, msg) == [p |-> Fail(P, msg), c |-> NO_CHAR]

\* stream->peek() == EOF
Parser_eof(P) == P.pos >= Len(P.inp)

parse_utf8_continuation(P, char_value, left) ==
  IF left = 0 THEN Ret(P, char_value)
  ELSE IF Parser_eof(P) \/ P.inp[P.pos + 1] = 255
    THEN Thrown(P, "Incomplete UTF-8 character")
  ELSE LET byte == P.inp[P.pos + 1] IN
    IF byte < 128 THEN Thrown(P, "Invalid UTF-8 byte")
    ELSE Run("parse_utf8_continuation", <<[P EXCEPT !.pos = @ + 1], char_value * 64 + (byte % 64), left - 1>>)

\* The number of leading one bits of a byte that has its top bit set.
LeadingOnes(byte) ==
  IF byte < 192 THEN 1 ELSE IF byte < 224 THEN 2 ELSE IF byte < 240 THEN 3
  ELSE IF byte < 248 THEN 4 ELSE 5

parse_utf8(P) ==
  LET current_char == P.inp[P.pos + 1]
      P1 == [P EXCEPT !.pos = @ + 1]
      sig_1s == LeadingOnes(current_char)
  IN IF current_char < 128 THEN Ret(P1, current_char)
     ELSE IF sig_1s < 2 \/ sig_1s > 4 THEN Thrown(P1, "Invalid UTF-8 byte")
     ELSE Run("parse_utf8_continuation", <<P1, current_char % (2 ^ (8 - sig_1s)), sig_1s - 1>>)


\* The end of the entity's own text or file, before any padding.
EntityStream_at_end(S) ==
  IF S.is_external THEN Parser_eof(S.parser) ELSE S.pos >= Len(S.text)

get_eof_error_object(S) ==
  IF S.is_parameter THEN "End of parameter entity stream reached unexpectedly"
  ELSE "End of entity stream reached unexpectedly"

EntityStream_get(S) ==
  IF S.is_external /\ S.parser.previous_char # NO_CHAR
    THEN [s |-> S, c |-> S.parser.previous_char, err |-> ""]
  ELSE IF /\ S.is_parameter /\ ~S.in_entity_value
          /\ \/ ~S.leading_parameter_space_done
             \/ ~S.trailing_parameter_space_done /\ EntityStream_at_end(S)
    THEN [s |-> S, c |-> SPACE, err |-> ""]
  ELSE IF S.is_external
    THEN LET got == Run("Parser_get", <<S.parser>>) IN
         IF Failed(got.p)
           THEN [s |-> S, c |-> NO_CHAR, err |-> get_eof_error_object(S)]
           ELSE [s |-> [S EXCEPT !.parser = got.p], c |-> got.c, err |-> ""]
  ELSE IF S.pos >= Len(S.text)
    THEN [s |-> S, c |-> NO_CHAR, err |-> get_eof_error_object(S)]
  ELSE [s |-> S, c |-> S.text[S.pos + 1], err |-> ""]

EntityStream_inc(S) ==
  IF S.is_parameter /\ ~S.in_entity_value /\ ~S.leading_parameter_space_done
    THEN [s |-> [S EXCEPT !.leading_parameter_space_done = TRUE], err |-> ""]
  ELSE IF /\ S.is_parameter /\ ~S.in_entity_value
          /\ ~S.trailing_parameter_space_done /\ EntityStream_at_end(S)
    THEN [s |-> [S EXCEPT !.trailing_parameter_space_done = TRUE], err |-> ""]
  ELSE IF S.is_external
    THEN LET Q == Run("Parser_inc", <<S.parser>>) IN
         [s |-> [S EXCEPT !.pos = @ + 1, !.parser = Q], err |-> Q.err]
  ELSE [s |-> [S EXCEPT !.pos = @ + 1], err |-> ""]

EntityStream_eof(S) ==
  IF S.is_parameter /\ ~S.in_entity_value
    THEN S.trailing_parameter_space_done
    ELSE EntityStream_at_end(S)

Parser_get(P) ==
  IF P.previous_char # NO_CHAR THEN Ret(P, P.previous_char)
  ELSE
    LET just_parsed_carriage_return == P.just_parsed_carriage_return
        P1 == [P EXCEPT !.just_parsed_character_reference = FALSE,
                        !.just_parsed_carriage_return = FALSE]
    IN
    IF Len(P1.general_entity_stack) > 0 THEN
      LET n == Len(P1.general_entity_stack)
          got == Run("EntityStream_get", <<P1.general_entity_stack[n]>>)
      IN Ret([P1 EXCEPT !.general_entity_stack[n] = got.s, !.err = got.err],
             got.c)
    ELSE IF Len(P1.parameter_entity_stack) > 0 THEN
      LET n == Len(P1.parameter_entity_stack)
          got == Run("EntityStream_get", <<P1.parameter_entity_stack[n]>>)
      IN Ret([P1 EXCEPT !.parameter_entity_stack[n] = got.s, !.err = got.err],
             got.c)
    ELSE IF Parser_eof(P1) THEN Thrown(P1, "End of data reached unexpectedly")
    ELSE
      LET u == Run("parse_utf8", <<P1>>) IN
      IF Failed(u.p) THEN u
      ELSE IF u.c = LINE_FEED /\ just_parsed_carriage_return THEN
        LET Q == Run("Parser_inc", <<u.p>>) IN
        IF Failed(Q) THEN Ret(Q, NO_CHAR) ELSE Run("Parser_get", <<Q>>)
      ELSE IF u.c = CARRIAGE_RETURN THEN
        Ret([u.p EXCEPT !.just_parsed_carriage_return = TRUE], LINE_FEED)
      ELSE Ret([u.p EXCEPT !.previous_char = u.c], u.c)

\* operator++ of one entity stack: step its top stream, and pop the stream
\* when it is at its end and is not the only one.
StackInc(stack, names) ==
  LET n == Len(stack)
      stepped == Run("EntityStream_inc", <<stack[n]>>)
      stack1 == [stack EXCEPT ![n] = stepped.s]
  IN IF EntityStream_eof(stepped.s) /\ n > 1
       THEN [stack |-> Front(stack1), names |-> names \ {stepped.s.name},
             err |-> stepped.err]
       ELSE [stack |-> stack1, names |-> names, err |-> stepped.err]

Parser_inc(P) ==
  IF P.general_entity_active THEN
    LET r == Run("StackInc", <<P.general_entity_stack, P.general_entity_names>>) IN
    [P EXCEPT !.general_entity_stack = r.stack,
              !.general_entity_names = r.names, !.err = r.err]
  ELSE IF P.parameter_entity_active THEN
    LET r == Run("StackInc", <<P.parameter_entity_stack, P.parameter_entity_names>>) IN
    [P EXCEPT !.parameter_entity_stack = r.stack,
              !.parameter_entity_names = r.names, !.err = r.err]
  ELSE
    LET Q == IF P.previous_char = NO_CHAR THEN Run("Parser_get", <<P>>).p ELSE P IN
    IF Failed(Q) THEN Q ELSE [Q EXCEPT !.previous_char = NO_CHAR]

Val(P, value) == [p |-> P, v |-> value]
ThrownVal(P, msg) == [p |-> Fail(P, msg), v |-> <<>>]

(***************************************************************************)
(* Names and character references (utils.cpp).                             *)
(***************************************************************************)
valid_name(name, check_all_chars) ==
  IF name = <<>> THEN FALSE
  ELSE IF check_all_chars /\ ~valid_name_start_character(name[1]) THEN FALSE
  ELSE IF check_all_chars
          /\ \E ii \in 2..Len(name) : ~valid_name_character(name[ii]) THEN FALSE
  ELSE IF Len(name) < 3 THEN TRUE
  ELSE ~(ToLower(name[1]) = Run("Txt", <<"x">>)[1] /\ ToLower(name[2]) =
    Run("Txt", <<"m">>)[1]
         /\ ToLower(name[3]) = Run("Txt", <<"l">>)[1])

isdigit(ch) == ch >= Run("Txt", <<"D0">>)[1] /\ ch <= Run("Txt", <<"D9">>)[1]
isxdigit(ch) == isdigit(ch) \/ (ch >= Run("Txt", <<"a">>)[1] /\ ch <=
  Run("Txt", <<"f">>)[1])
                \/ (ch >= Run("Txt", <<"A">>)[1] /\ ch <= Run("Txt",
                  <<"F">>)[1])

\* The characters the classification table has an entry for.
in_ctype_table(ch) == ch >= 0 /\ ch <= 255

\* std::isdigit(c) and std::isxdigit(c) as the source calls them, on a Char:
\* "yes", "no", or "trap" when the read beyond the table faults.
std_isdigit(ch, beyond) ==
  IF in_ctype_table(ch) THEN (IF isdigit(ch) THEN "yes" ELSE "no")
  ELSE IF ch \in beyond.trap THEN "trap"
  ELSE IF ch \in beyond.digit THEN "yes" ELSE "no"

std_isxdigit(ch, beyond) ==
  IF in_ctype_table(ch) THEN (IF isxdigit(ch) THEN "yes" ELSE "no")
  ELSE IF ch \in beyond.trap THEN "trap"
  ELSE IF ch \in beyond.xdigit THEN "yes" ELSE "no"

UTF8_BYTE_LIMITS == <<127, 2047, 65535, 1114111>>

\* The digit loop of parse_character_reference(string): [v, err].
character_reference_digits(string, ii, is_hex, char_value, beyond) ==
  LET ch == ToLower(string[ii]) IN
  IF ch = SEMI_COLON THEN
    IF valid_character(char_value) THEN [v |-> char_value, err |-> ""]
    ELSE [v |-> NO_CHAR, err |-> "Invalid character"]
  ELSE IF is_hex /\ std_isxdigit(ch, beyond) = "trap"
    THEN [v |-> NO_CHAR, err |-> "SIGSEGV"]
  ELSE IF is_hex /\ std_isxdigit(ch, beyond) = "no"
    THEN [v |-> NO_CHAR, err |-> "Invalid hexadecimal (0-F) digit"]
  ELSE IF ~is_hex /\ std_isdigit(ch, beyond) = "trap"
    THEN [v |-> NO_CHAR, err |-> "SIGSEGV"]
  ELSE IF ~is_hex /\ std_isdigit(ch, beyond) = "no"
    THEN [v |-> NO_CHAR, err |-> "Invalid denary (0-9) digit"]
  ELSE
    LET digit_value == IF is_hex /\ ch >= Run("Txt", <<"a">>)[1] THEN ch -
      Run("Txt", <<"a">>)[1] + 10 ELSE ch - Run("Txt", <<"D0">>)[1]
        next_value == IF is_hex THEN char_value * 16 + digit_value
                      ELSE char_value * 10 + digit_value
    IN IF next_value > UTF8_BYTE_LIMITS[4]
         THEN [v |-> NO_CHAR, err |-> "Invalid character"]
         ELSE Run("character_reference_digits", <<string, ii + 1, is_hex, next_value, beyond>>)

\* xml::parse_character_reference: string is the text after "&#", up to and
\* including the semicolon.
xml_parse_character_reference(string, beyond) ==
  LET is_hex == string[1] = Run("Txt", <<"x">>)[1]
      ii == IF is_hex THEN 2 ELSE 1
  IN IF string[ii] = SEMI_COLON
       THEN [v |-> NO_CHAR,
             err |-> "Character reference must contain at least one digit"]
       ELSE Run("character_reference_digits", <<string, ii, is_hex, 0, beyond>>)

read_character_reference(P, string) ==
  LET got == Run("Parser_get", <<P>>) IN
  IF Failed(got.p) THEN ThrownVal(got.p, got.p.err)
  ELSE LET Q == Run("Parser_inc", <<got.p>>) IN
    IF Failed(Q) THEN ThrownVal(Q, Q.err)
    ELSE IF got.c = SEMI_COLON THEN Val(Q, Append(string, got.c))
    ELSE IF got.c = SPACE
      THEN ThrownVal(Q, "Character reference not terminated")
    ELSE Run("read_character_reference", <<Q, Append(string, got.c)>>)

\* Parser::parse_character_reference.
parse_character_reference(P) ==
  LET read == Run("read_character_reference", <<P, <<>>>>) IN
  IF Failed(read.p) THEN Ret(read.p, NO_CHAR)
  ELSE LET P1 == [read.p EXCEPT !.just_parsed_character_reference = TRUE]
           value == Run("xml_parse_character_reference", <<read.v, P.ctype_beyond>>)
       IN IF value.err # "" THEN Thrown(P1, value.err) ELSE Ret(P1, value.v)

(***************************************************************************)
(* General entities (parser.cpp).  An entity table maps a name to          *)
(* [name, value, is_external, is_unparsed, from_external, external_id,     *)
(* notation_name].                                                         *)
(***************************************************************************)
Entity(value) ==
  [ name |-> <<>>, value |-> value, is_external |-> FALSE, is_unparsed |-> FALSE,
    from_external |-> FALSE,
    external_id |-> [type |-> "none", system_id |-> <<>>, public_id |-> <<>>],
    notation_name |-> <<>> ]

BUILT_IN_GENERAL_ENTITIES ==
  [ name \in { Run("Txt", <<"l", "t">>), Run("Txt", <<"g", "t">>),
    Run("Txt", <<"a", "m", "p">>),
               Run("Txt", <<"a", "p", "o", "s">>), Run("Txt", <<"q", "u",
                 "o", "t">>) } |->
      Entity(CASE name = Run("Txt", <<"l", "t">>) -> Run("Txt", <<"AMP",
        "HASH", "D6", "D0", "SEMI">>)
               [] name = Run("Txt", <<"g", "t">>) -> Run("Txt", <<"AMP",
                 "HASH", "D6", "D2", "SEMI">>)
               [] name = Run("Txt", <<"a", "m", "p">>) -> Run("Txt",
                 <<"AMP", "HASH", "D3", "D8", "SEMI">>)
               [] name = Run("Txt", <<"a", "p", "o", "s">>) -> Run("Txt",
                 <<"AMP", "HASH", "D3", "D9", "SEMI">>)
               [] OTHER -> Run("Txt", <<"AMP", "HASH", "D3", "D4", "SEMI">>)) ]

\* EntityStream(text, name).  The field chain is a history variable: the names
\* of the entities whose replacement texts enclose this one, itself last.
InternalStream(text, name, chain) ==
  [ text |-> text, name |-> name, pos |-> 0, is_external |-> FALSE,
    is_parameter |-> FALSE, in_entity_value |-> FALSE,
    leading_parameter_space_done |-> FALSE,
    trailing_parameter_space_done |-> FALSE,
    parser |-> NoParser, chain |-> chain ]

\* The chain of the stream the parser reads from (<<>> for the document).
ChainOf(stack) == IF stack = <<>> THEN <<>> ELSE Last(stack).chain

parse_general_entity_name(P, name) ==
  LET got == Run("Parser_get", <<P>>) IN
  IF Failed(got.p) THEN ThrownVal(got.p, got.p.err)
  ELSE LET Q == Run("Parser_inc", <<got.p>>) IN
    IF Failed(Q) THEN ThrownVal(Q, Q.err)
    ELSE IF got.c = SEMI_COLON THEN Val(Q, name)
    ELSE IF got.c = SPACE THEN ThrownVal(Q, "Entity reference not terminated")
    ELSE Run("parse_general_entity_name", <<Q, Append(name, got.c)>>)

general_entity_eof(P) ==
  /\ P.general_entity_active
  /\ Len(P.general_entity_stack) = 1
  /\ EntityStream_eof(Last(P.general_entity_stack))

\* An end of the general entities that does not forget their names.
end_general_entity_keeps_names(P) ==
  [P EXCEPT !.general_entity_stack = <<>>, !.general_entity_active = FALSE]

\* Parser::end_general_entity.
end_general_entity(P) ==
  [P EXCEPT !.general_entity_stack = <<>>, !.general_entity_names = {},
            !.general_entity_active = FALSE]


HasPrefix(str, pre) ==
  Len(str) >= Len(pre) /\ SubSeq(str, 1, Len(pre)) = pre

\* The look-ahead of EntityStream(file_path, name): the file starts with
\* "<?xml" and one whitespace character.
has_text_declaration(bytes) ==
  /\ HasPrefix(bytes, Run("Txt", <<"LT", "QM", "x", "m", "l">>))
  /\ Len(bytes) >= 6
  /\ is_whitespace(bytes[6])

\* EntityStream(file_path, name): [s, err].
ExternalStream(files, system_id, name, chain) ==
  LET S == [ text |-> <<>>, name |-> name, pos |-> 0, is_external |-> TRUE,
             is_parameter |-> FALSE, in_entity_value |-> FALSE,
             leading_parameter_space_done |-> FALSE,
             trailing_parameter_space_done |-> FALSE,
             parser |-> NewParser(IF system_id \in DOMAIN files
                                    THEN files[system_id] ELSE <<>>),
             chain |-> chain ]
  IN IF system_id \notin DOMAIN files
       THEN [s |-> S, err |-> "Could not open file"]
     ELSE IF has_text_declaration(files[system_id])
       THEN [s |-> S, err |-> "Text declaration error"]
     ELSE [s |-> S, err |-> ""]

\* Parser::parse_general_entity.  origin is the chain of the stream the
\* reference was read in.
parse_general_entity(P, general_entities, in_attribute_value, origin) ==
  LET read == Run("parse_general_entity_name", <<P, <<>>>>)
      name == read.v
      Q == read.p
  IN
  IF Failed(Q) THEN Q
  ELSE IF name \notin DOMAIN general_entities
    THEN Fail(Q, "Reference to undeclared entity")
  ELSE IF general_entities[name].is_unparsed
    THEN Fail(Q, "Cannot have reference to unparsed entity")
  ELSE IF /\ name \notin DOMAIN BUILT_IN_GENERAL_ENTITIES
          /\ general_entities[name].from_external /\ Q.standalone
    THEN Fail(Q, "Cannot declare entities externally if standalone")
  ELSE IF name \in Q.general_entity_names
    THEN Fail(Q, "Entity recursive self-reference detected")
  ELSE
    LET Q1 == [Q EXCEPT !.general_entity_names = @ \cup {name}] IN
    IF general_entities[name].is_external THEN
      IF in_attribute_value
        THEN Fail(Q1, "No external entities in attribute values")
      ELSE
        LET made == Run("ExternalStream", <<Q1.files, general_entities[name].external_id.system_id, name, Append(origin, name)>>)
        IN IF made.err # "" THEN Fail(Q1, made.err)
           ELSE [Q1 EXCEPT !.general_entity_stack = Append(@, made.s),
                           !.general_entity_active = TRUE]
    ELSE
      [Q1 EXCEPT !.general_entity_stack =
                   Append(@, InternalStream(general_entities[name].value, name,
                                            Append(origin, name))),
                 !.general_entity_active = TRUE]

PopStream(stack) == Front(stack)

\* Parser::get(general_entities, in_attribute_value).
Parser_get_general(P, general_entities, in_attribute_value) ==
  LET got == Run("Parser_get", <<P>>) IN
  IF Failed(got.p) THEN got
  ELSE IF got.c = AMPERSAND /\ ~got.p.just_parsed_character_reference THEN
    LET origin == ChainOf(got.p.general_entity_stack)
        P1 == Run("Parser_inc", <<got.p>>)
        nxt == Run("Parser_get", <<P1>>)
    IN
    IF Failed(P1) THEN Ret(P1, NO_CHAR)
    ELSE IF Failed(nxt.p) THEN nxt
    ELSE IF nxt.c = OCTOTHORPE THEN
      LET P2 == Run("Parser_inc", <<nxt.p>>) IN
      IF Failed(P2) THEN Ret(P2, NO_CHAR) ELSE Run("parse_character_reference", <<P2>>)
    ELSE
      LET P3 == Run("parse_general_entity", <<nxt.p, general_entities, in_attribute_value, origin>>)
      IN
      IF Failed(P3) THEN Ret(P3, NO_CHAR)
      ELSE IF EntityStream_eof(Last(P3.general_entity_stack)) THEN
        LET P4 == IF general_entity_eof(P3) THEN end_general_entity(P3)
                  ELSE [P3 EXCEPT
                          !.general_entity_names =
                             @ \ {Last(P3.general_entity_stack).name},
                          !.general_entity_stack = PopStream(@)]
        IN Run("Parser_get_general", <<P4, general_entities, in_attribute_value>>)
      ELSE
        LET n == Len(P3.general_entity_stack)
            top == Run("EntityStream_get", <<P3.general_entity_stack[n]>>)
        IN Ret([P3 EXCEPT !.general_entity_stack[n] = top.s, !.err = top.err],
               top.c)
  ELSE got

ignore_whitespace(P) ==
  LET got == Run("Parser_get", <<P>>) IN
  IF Failed(got.p) THEN got.p
  ELSE IF is_whitespace(got.c) THEN
    LET Q == Run("Parser_inc", <<got.p>>) IN IF Failed(Q) THEN Q ELSE Run("ignore_whitespace", <<Q>>)
  ELSE got.p


(***************************************************************************)
(* Parameter entities (parser.cpp).                                        *)
(***************************************************************************)
parameter_entity_eof(P) ==
  /\ P.parameter_entity_active
  /\ Len(P.parameter_entity_stack) = 1
  /\ EntityStream_eof(Last(P.parameter_entity_stack))

end_parameter_entity(P) ==
  [P EXCEPT !.parameter_entity_stack = <<>>, !.parameter_entity_names = {},
            !.parameter_entity_active = FALSE,
            !.external_dtd_content_active = FALSE]

parse_parameter_entity_name(P, name) ==
  LET got == Run("Parser_get", <<P>>) IN
  IF Failed(got.p) THEN ThrownVal(got.p, got.p.err)
  ELSE LET Q == Run("Parser_inc", <<got.p>>) IN
    IF Failed(Q) THEN ThrownVal(Q, Q.err)
    ELSE IF got.c = SEMI_COLON THEN Val(Q, name)
    ELSE IF got.c = SPACE
      THEN ThrownVal(Q, "Parameter entity reference not terminated")
    ELSE Run("parse_parameter_entity_name", <<Q, Append(name, got.c)>>)

\* Parser::parse_parameter_entity.  origin is the chain of the stream the
\* reference was read in.
parse_parameter_entity(P, parameter_entities, in_entity_value, origin) ==
  LET read == Run("parse_parameter_entity_name", <<P, <<>>>>)
      name == read.v
      Q == read.p
  IN
  IF Failed(Q) THEN Q
  ELSE IF name \notin DOMAIN parameter_entities
    THEN Fail(Q, "Reference to undeclared parameter entity")
  ELSE IF name \in Q.parameter_entity_names
    THEN Fail(Q, "Parameter entity recursive self-reference detected")
  ELSE
    LET Q1 == [Q EXCEPT !.parameter_entity_names = @ \cup {name}]
        made == IF parameter_entities[name].is_external
                  THEN Run("ExternalStream", <<Q1.files, parameter_entities[name].external_id.system_id, name, Append(origin, name)>>)
                  ELSE [s |-> InternalStream(parameter_entities[name].value,
                                             name, Append(origin, name)),
                        err |-> ""]
        parameter_entity == [made.s EXCEPT !.is_parameter = TRUE,
                                           !.in_entity_value = in_entity_value]
    IN IF made.err # "" THEN Fail(Q1, made.err)
       ELSE [Q1 EXCEPT
               !.external_dtd_content_active =
                  IF Q1.parameter_entity_stack = <<>>
                    THEN parameter_entity.is_external ELSE @,
               !.parameter_entity_stack = Append(@, parameter_entity),
               !.parameter_entity_active = TRUE]

\* Parser::get(parameter_entities, in_markup, in_entity_value,
\*             ignore_whitespace_after_percent_sign).
Parser_get_parameter(P, parameter_entities, in_markup, in_entity_value, ignore_whitespace_after_percent_sign) ==
  LET got == Run("Parser_get", <<P>>) IN
  IF Failed(got.p) THEN got
  ELSE IF got.c = PERCENT_SIGN /\ ~got.p.just_parsed_character_reference THEN
    LET origin == ChainOf(got.p.parameter_entity_stack)
        P1 == Run("Parser_inc", <<got.p>>)
        nxt == Run("Parser_get_parameter", <<P1, parameter_entities, in_markup, in_entity_value, FALSE>>)
        P2 == Run("parse_parameter_entity", <<nxt.p, parameter_entities, in_entity_value, origin>>)
        n == Len(P2.parameter_entity_stack)
        top == Run("EntityStream_get", <<P2.parameter_entity_stack[n]>>)
        P3 == [P2 EXCEPT !.parameter_entity_stack[n] = top.s, !.err = top.err]
    IN
    IF Failed(P1) THEN Ret(P1, NO_CHAR)
    ELSE IF Failed(nxt.p) THEN nxt
    ELSE IF is_whitespace(nxt.c) /\ ignore_whitespace_after_percent_sign
      THEN Ret(nxt.p, PERCENT_SIGN)
    ELSE IF in_markup /\ ~nxt.p.external_dtd_content_active
      THEN Thrown(nxt.p,
                  "Parameter entity disallowed inside markup in internal DTD.")
    ELSE IF Failed(P2) THEN Ret(P2, NO_CHAR)
    ELSE IF Failed(P3) THEN Ret(P3, NO_CHAR)
    ELSE IF top.c = PERCENT_SIGN
      THEN Run("Parser_get_parameter", <<P3, parameter_entities, in_markup, in_entity_value, ignore_whitespace_after_percent_sign>>)
    ELSE Ret(P3, top.c)
  ELSE got

\* An optional table of parameter entities (a pointer that may be null).
NullTable == [null |-> TRUE, table |-> <<>>]
Table(entities) == [null |-> FALSE, table |-> entities]

\* Parser::ignore_whitespace(parameter_entities).
ignore_whitespace_parameter(P, parameter_entities) ==
  LET got == Run("Parser_get_parameter", <<P, parameter_entities, TRUE, FALSE, FALSE>>) IN
  IF Failed(got.p) THEN got.p
  ELSE IF is_whitespace(got.c) THEN
    LET Q == Run("Parser_inc", <<got.p>>) IN
    IF Failed(Q) THEN Q ELSE Run("ignore_whitespace_parameter", <<Q, parameter_entities>>)
  ELSE got.p

parse_name_loop(P, until, parameter_entities, name) ==
  LET got == IF parameter_entities.null THEN Run("Parser_get", <<P>>)
             ELSE Run("Parser_get_parameter", <<P, parameter_entities.table, TRUE, FALSE, FALSE>>)
  IN
  IF Failed(got.p) THEN ThrownVal(got.p, got.p.err)
  ELSE IF got.c \in Range(until) THEN Val(got.p, name)
  ELSE IF name = <<>> /\ ~valid_name_start_character(got.c)
    THEN ThrownVal(got.p, "Invalid name start character")
  ELSE IF name # <<>> /\ ~valid_name_character(got.c)
    THEN ThrownVal(got.p, "Invalid name character")
  ELSE LET Q == Run("Parser_inc", <<got.p>>) IN
    IF Failed(Q) THEN ThrownVal(Q, Q.err)
    ELSE Run("parse_name_loop", <<Q, until, parameter_entities, Append(name, got.c)>>)

\* Parser::parse_name(until, validate, parameter_entities,
\*                    validation_exemptions).
parse_name(P, until, validate, parameter_entities, validation_exemptions) ==
  LET read == Run("parse_name_loop", <<P, until, parameter_entities, <<>>>>) IN
  IF Failed(read.p) THEN read
  ELSE IF /\ validate /\ ~Run("valid_name", <<read.v, FALSE>>)
          /\ read.v \notin validation_exemptions
    THEN ThrownVal(read.p, "Invalid name")
  ELSE read


(***************************************************************************)
(* Maps (std::map) are functions; the empty map is <<>>.                   *)
(***************************************************************************)
EmptyMap == <<>>
Put(map, key, value) ==
  [kk \in DOMAIN map \cup {key} |-> IF kk = key THEN value ELSE map[kk]]

(***************************************************************************)
(* The DOCTYPE declaration object (utils.h).                               *)
(***************************************************************************)
NoExternalID == [type |-> "none", system_id |-> <<>>, public_id |-> <<>>]

DoctypeDeclaration ==
  [ exists |-> FALSE, root_name |-> <<>>, external_id |-> NoExternalID,
    element_declarations |-> EmptyMap,
    attribute_list_declarations |-> EmptyMap,
    general_entities |-> BUILT_IN_GENERAL_ENTITIES,
    parameter_entities |-> EmptyMap,
    notation_declarations |-> EmptyMap ]

(***************************************************************************)
(* Attributes and tags (parser.cpp).                                       *)
(***************************************************************************)
INVALID_ATTRIBUTE_VALUE_CHARACTERS == <<LEFT_ANGLE_BRACKET, AMPERSAND>>

valid_attribute_value_character(ch) ==
  valid_character(ch) /\ ch \notin Range(INVALID_ATTRIBUTE_VALUE_CHARACTERS)

ATTRIBUTE_NAME_TERMINATORS == WHITESPACE \o <<EQUAL>>
START_EMPTY_TAG_NAME_TERMINATORS == WHITESPACE \o <<RIGHT_ANGLE_BRACKET, SOLIDUS>>
END_TAG_NAME_TERMINATORS == WHITESPACE \o <<RIGHT_ANGLE_BRACKET>>
PROCESSING_INSTRUCTION_TARGET_NAME_TERMINATORS == WHITESPACE \o <<QUESTION_MARK>>

XML_SPACE == Run("Txt", <<"x", "m", "l", "COLON", "s", "p", "a", "c", "e">>)
XML_LANG == Run("Txt", <<"x", "m", "l", "COLON", "l", "a", "n", "g">>)
SPECIAL_ATTRIBUTE_NAMES == {XML_SPACE, XML_LANG}

\* Parser::parse_general_entity_text with the callback parse_attribute_value
\* passes: [p, v] where v is value with the entity's characters appended.
parse_general_entity_text(P, general_entities, value, original_depth) ==
  LET got == Run("Parser_get_general", <<P, general_entities, TRUE>>)
      P0 == got.p
      is_text == got.c # AMPERSAND \/ P0.just_parsed_character_reference
      bad == /\ is_text /\ ~P0.just_parsed_character_reference
             /\ ~valid_attribute_value_character(got.c)
      value1 == IF ~is_text THEN value
                ELSE IF is_whitespace(got.c)
                        /\ ~P0.just_parsed_character_reference
                  THEN Append(value, SPACE)
                ELSE Append(value, got.c)
      P1 == IF is_text /\ ~P0.just_parsed_character_reference
              THEN Run("Parser_inc", <<P0>>) ELSE P0
  IN
  IF Failed(P0) THEN ThrownVal(P0, P0.err)
  ELSE IF bad THEN ThrownVal(P0, "Invalid attribute character in entity")
  ELSE IF Failed(P1) THEN ThrownVal(P1, P1.err)
  ELSE IF /\ Len(P1.general_entity_stack) = original_depth + 1
          /\ EntityStream_eof(Last(P1.general_entity_stack))
    THEN Val(IF general_entity_eof(P1) THEN end_general_entity(P1) ELSE P1,
             value1)
  ELSE Run("parse_general_entity_text", <<P1, general_entities, value1, original_depth>>)

\* The copy loop of the normalisation: a space is kept only when the
\* character before it is not a space.
CollapseSpaces(value, ii) ==
  IF ii > Len(value) THEN <<>>
  ELSE IF value[ii] # SPACE \/ value[ii - 1] # SPACE
    THEN <<value[ii]>> \o Run("CollapseSpaces", <<value, ii + 1>>)
  ELSE Run("CollapseSpaces", <<value, ii + 1>>)

\* The normalisation of a value that is not CDATA: [v, err].  non_space_begin
\* and non_space_end are positions (0-based); reserve() of a negative
\* difference, converted to an unsigned size, throws std::length_error.
normalise_attribute_value(value) ==
  LET non_spaces == {ii \in 1..Len(value) : value[ii] # SPACE}
      non_space_begin == IF non_spaces = {} THEN Len(value)
                         ELSE (CHOOSE ii \in non_spaces :
                                 \A jj \in non_spaces : ii <= jj) - 1
      non_space_end == IF non_spaces = {} THEN 0
                       ELSE CHOOSE ii \in non_spaces :
                              \A jj \in non_spaces : ii >= jj
  IN IF non_space_end - non_space_begin < 0
       THEN [v |-> <<>>, err |-> "std::length_error"]
       ELSE [v |-> Run("CollapseSpaces", <<SubSeq(value, 1, non_space_end), non_space_begin + 1>>),
             err |-> ""]

parse_attribute_value_loop(P, dtd, references_active, quote, value, general_entity_stack_size_before) ==
  LET got == Run("Parser_get_general", <<P, dtd.general_entities, TRUE>>)
      P0 == got.p
      entity == Run("parse_general_entity_text", <<P0, dtd.general_entities, value, general_entity_stack_size_before>>)
      P1 == IF ~P0.just_parsed_character_reference THEN Run("Parser_inc", <<P0>>) ELSE P0
      value1 == IF is_whitespace(got.c) /\ ~P0.just_parsed_character_reference
                  THEN Append(value, SPACE) ELSE Append(value, got.c)
  IN
  IF Failed(P0) THEN ThrownVal(P0, P0.err)
  ELSE IF Len(P0.general_entity_stack) > general_entity_stack_size_before THEN
    IF ~references_active
      THEN ThrownVal([P0 EXCEPT !.general_entity_stack = PopStream(@)],
                     "Cannot have entity reference here")
    ELSE IF Failed(entity.p) THEN entity
    ELSE Run("parse_attribute_value_loop", <<entity.p, dtd, references_active, quote, entity.v, general_entity_stack_size_before>>)
  ELSE IF Failed(P1) THEN ThrownVal(P1, P1.err)
  ELSE IF ~P0.just_parsed_character_reference /\ got.c = quote
    THEN Val(P1, value)
  ELSE IF ~P0.just_parsed_character_reference
          /\ ~valid_attribute_value_character(got.c)
    THEN ThrownVal(P1, "Invalid attribute character")
  ELSE IF P0.just_parsed_character_reference /\ ~references_active
    THEN ThrownVal(P1, "Cannot have character reference here")
  ELSE Run("parse_attribute_value_loop", <<P1, dtd, references_active, quote, value1, general_entity_stack_size_before>>)

\* Parser::parse_attribute_value(dtd, references_active, is_cdata).
parse_attribute_value(P, dtd, references_active, is_cdata) ==
  LET got == Run("Parser_get", <<P>>)
      P1 == Run("Parser_inc", <<got.p>>)
      read == Run("parse_attribute_value_loop", <<P1, dtd, references_active, got.c, <<>>, Len(P1.general_entity_stack)>>)
      normalised == Run("normalise_attribute_value", <<read.v>>)
  IN
  IF Failed(got.p) THEN ThrownVal(got.p, got.p.err)
  ELSE IF got.c # SINGLE_QUOTE /\ got.c # DOUBLE_QUOTE
    THEN ThrownVal(got.p, "Attribute value must start with a quote")
  ELSE IF Failed(P1) THEN ThrownVal(P1, P1.err)
  ELSE IF Failed(read.p) THEN read
  ELSE IF is_cdata THEN read
  ELSE IF normalised.err # "" THEN ThrownVal(read.p, normalised.err)
  ELSE Val(read.p, normalised.v)


\* An optional tag name (a pointer that may be null).
NullName == [null |-> TRUE, name |-> <<>>]
Name(name) == [null |-> FALSE, name |-> name]

\* Parser::parse_attribute(dtd, references_active, is_cdata, tag_name):
\* [p, v] where v is <<name, value>>.
parse_attribute(P, dtd, references_active, is_cdata, tag_name) ==
  LET named == Run("parse_name", <<P, ATTRIBUTE_NAME_TERMINATORS, TRUE, NullTable, SPECIAL_ATTRIBUTE_NAMES>>)
      name == named.v
      P1 == Run("ignore_whitespace", <<named.p>>)
      equal == Run("Parser_get", <<P1>>)
      P2 == Run("Parser_inc", <<equal.p>>)
      P3 == Run("ignore_whitespace", <<P2>>)
      declarations == dtd.attribute_list_declarations
      cdata == IF is_cdata THEN TRUE
               ELSE /\ ~tag_name.null
                    /\ \/ tag_name.name \notin DOMAIN declarations
                       \/ /\ name \in DOMAIN declarations[tag_name.name]
                          /\ declarations[tag_name.name][name].type = "cdata"
      value == Run("parse_attribute_value", <<P3, dtd, references_active, cdata>>)
  IN
  IF Failed(named.p) THEN named
  ELSE IF Failed(P1) THEN ThrownVal(P1, P1.err)
  ELSE IF Failed(equal.p) THEN ThrownVal(equal.p, equal.p.err)
  ELSE IF equal.c # EQUAL THEN ThrownVal(equal.p, "Expected '='")
  ELSE IF Failed(P2) THEN ThrownVal(P2, P2.err)
  ELSE IF Failed(P3) THEN ThrownVal(P3, P3.err)
  ELSE IF Failed(value.p) THEN value
  ELSE Val(value.p, <<name, value.v>>)

\* A tag (utils.h).  The field external_defaults is a history variable: the
\* attributes whose value is a default that was declared inside an external
\* entity (external subset or external parameter entity).
Tag(name, type, attributes) ==
  [ name |-> name, type |-> type, attributes |-> attributes,
    external_defaults |-> {} ]

parse_end_tag_close(P) ==
  LET got == Run("Parser_get", <<P>>)
      Q == Run("Parser_inc", <<got.p>>)
  IN IF Failed(got.p) THEN got.p
     ELSE IF Failed(Q) THEN Q
     ELSE IF got.c = RIGHT_ANGLE_BRACKET THEN Q
     ELSE IF ~is_whitespace(got.c) THEN Fail(Q, "Expected '>'")
     ELSE Run("parse_end_tag_close", <<Q>>)

\* The loop of parse_tag over a start or empty tag: [p, v] where v is the tag.
parse_tag_attributes(P, dtd, tag, just_had_whitespace) ==
  LET got == Run("Parser_get", <<P>>)
      P1 == Run("Parser_inc", <<got.p>>)
      closing == Run("Parser_get", <<P1>>)
      P2 == Run("Parser_inc", <<closing.p>>)
      attribute == Run("parse_attribute", <<got.p, dtd, TRUE, FALSE, Name(tag.name)>>)
  IN
  IF Failed(got.p) THEN ThrownVal(got.p, got.p.err)
  ELSE IF got.c = RIGHT_ANGLE_BRACKET THEN
    IF Failed(P1) THEN ThrownVal(P1, P1.err)
    ELSE Val(P1, [tag EXCEPT !.type = "start"])
  ELSE IF got.c = SOLIDUS THEN
    IF Failed(P1) THEN ThrownVal(P1, P1.err)
    ELSE IF Failed(closing.p) THEN ThrownVal(closing.p, closing.p.err)
    ELSE IF Failed(P2) THEN ThrownVal(P2, P2.err)
    ELSE IF closing.c # RIGHT_ANGLE_BRACKET THEN ThrownVal(P2, "Expected '>'")
    ELSE Val(P2, [tag EXCEPT !.type = "empty"])
  ELSE IF is_whitespace(got.c) THEN
    IF Failed(P1) THEN ThrownVal(P1, P1.err)
    ELSE Run("parse_tag_attributes", <<P1, dtd, tag, TRUE>>)
  ELSE IF ~just_had_whitespace THEN ThrownVal(got.p, "Expected whitespace")
  ELSE IF Failed(attribute.p) THEN attribute
  ELSE IF attribute.v[1] \in DOMAIN tag.attributes
    THEN ThrownVal(attribute.p, "Duplicate attribute name in the same element")
  ELSE Run("parse_tag_attributes", <<attribute.p, dtd, [tag EXCEPT !.attributes = Put(@, attribute.v[1], attribute.v[2])], FALSE>>)

\* The end of parse_tag: the declared default values of the attributes the
\* tag does not carry.
add_default_values(P, dtd, tag) ==
  IF tag.name \notin DOMAIN dtd.attribute_list_declarations THEN Val(P, tag)
  ELSE
    LET declared == dtd.attribute_list_declarations[tag.name]
        missing == {name \in DOMAIN declared :
                      /\ name \notin DOMAIN tag.attributes
                      /\ declared[name].has_default_value}
    IN IF \E name \in missing : declared[name].from_external /\ P.standalone
         THEN ThrownVal(P, "Default attribute value declared externally cannot be used in standalone document")
         ELSE Val(P, [tag EXCEPT
                        !.attributes =
                           [name \in DOMAIN tag.attributes \cup missing |->
                              IF name \in missing
                                THEN declared[name].default_value
                                ELSE tag.attributes[name]],
                        !.external_defaults =
                           {name \in missing : declared[name].in_external_entity}])

\* Parser::parse_tag(dtd): [p, v] where v is the tag.
parse_tag(P, dtd) ==
  LET got == Run("Parser_get", <<P>>)
      P1 == Run("Parser_inc", <<got.p>>)
      end_name == Run("parse_name", <<P1, END_TAG_NAME_TERMINATORS, TRUE, NullTable, {}>>)
      P2 == Run("parse_end_tag_close", <<end_name.p>>)
      name == Run("parse_name", <<got.p, START_EMPTY_TAG_NAME_TERMINATORS, TRUE, NullTable, {}>>)
      tag == Run("parse_tag_attributes", <<name.p, dtd, Tag(name.v, "start", EmptyMap), FALSE>>)
  IN
  IF Failed(got.p) THEN ThrownVal(got.p, got.p.err)
  ELSE IF got.c = SOLIDUS THEN
    IF Failed(P1) THEN ThrownVal(P1, P1.err)
    ELSE IF Failed(end_name.p) THEN end_name
    ELSE IF Failed(P2) THEN ThrownVal(P2, P2.err)
    ELSE Val(P2, Tag(end_name.v, "end", EmptyMap))
  ELSE IF Failed(name.p) THEN name
  ELSE IF Failed(tag.p) THEN tag
  ELSE Run("add_default_values", <<tag.p, dtd, tag.v>>)

parse_comment_loop(P, prev_char) ==
  LET got == Run("Parser_get", <<P>>)
      P1 == Run("Parser_inc", <<got.p>>)
      closing == Run("Parser_get", <<P1>>)
      P2 == Run("Parser_inc", <<closing.p>>)
  IN
  IF Failed(got.p) THEN got.p
  ELSE IF got.c = HYPHEN /\ prev_char = HYPHEN THEN
    IF Failed(P1) THEN P1
    ELSE IF Failed(closing.p) THEN closing.p
    ELSE IF closing.c = RIGHT_ANGLE_BRACKET THEN P2
    ELSE Fail(closing.p, "'--' disallowed in comment")
  ELSE IF ~valid_character(got.c) THEN Fail(got.p, "Invalid character")
  ELSE IF Failed(P1) THEN P1
  ELSE Run("parse_comment_loop", <<P1, got.c>>)

\* Parser::parse_comment.
parse_comment(P) == Run("parse_comment_loop", <<P, NO_CHAR>>)

parse_cdata_loop(P, cdata, prev_prev_char, prev_char) ==
  LET got == Run("Parser_get", <<P>>)
      P1 == Run("Parser_inc", <<got.p>>)
  IN
  IF Failed(got.p) THEN ThrownVal(got.p, got.p.err)
  ELSE IF /\ got.c = RIGHT_ANGLE_BRACKET /\ prev_char = RIGHT_SQUARE_BRACKET
          /\ prev_prev_char = RIGHT_SQUARE_BRACKET THEN
    IF Failed(P1) THEN ThrownVal(P1, P1.err)
    ELSE Val(P1, SubSeq(cdata, 1, Len(cdata) - 2))
  ELSE IF ~valid_character(got.c) THEN ThrownVal(got.p, "Invalid character")
  ELSE IF Failed(P1) THEN ThrownVal(P1, P1.err)
  ELSE Run("parse_cdata_loop", <<P1, Append(cdata, got.c), prev_char, got.c>>)

\* Parser::parse_cdata.
parse_cdata(P) == Run("parse_cdata_loop", <<P, <<>>, NO_CHAR, NO_CHAR>>)

ProcessingInstruction(target, instruction) ==
  [target |-> target, instruction |-> instruction]

parse_processing_instruction_loop(P, pi, prev_char) ==
  LET got == Run("Parser_get", <<P>>)
      P1 == Run("Parser_inc", <<got.p>>)
  IN
  IF Failed(got.p) THEN ThrownVal(got.p, got.p.err)
  ELSE IF got.c = RIGHT_ANGLE_BRACKET /\ prev_char = QUESTION_MARK THEN
    IF Failed(P1) THEN ThrownVal(P1, P1.err)
    ELSE Val(P1, [pi EXCEPT !.instruction = Front(@)])
  ELSE IF ~valid_character(got.c) THEN ThrownVal(got.p, "Invalid character")
  ELSE IF Failed(P1) THEN ThrownVal(P1, P1.err)
  ELSE Run("parse_processing_instruction_loop", <<P1, [pi EXCEPT !.instruction = Append(@, got.c)], got.c>>)

\* A processing instruction whose target is "xml" wherever it stands.
xml_declaration_always_detected(detect_xml_declaration, target) ==
  target = Run("Txt", <<"x", "m", "l">>)

\* The special case of parse_processing_instruction: the XML declaration is
\* being searched for and the target is exactly "xml".
xml_declaration_detected(detect_xml_declaration, target) ==
  detect_xml_declaration /\ target = Run("Txt", <<"x", "m", "l">>)

\* Parser::parse_processing_instruction(detect_xml_declaration).
parse_processing_instruction(P, detect_xml_declaration) ==
  LET target == Run("parse_name", <<P, PROCESSING_INSTRUCTION_TARGET_NAME_TERMINATORS, FALSE, NullTable, {}>>)
      pi == ProcessingInstruction(target.v, <<>>)
      got == Run("Parser_get", <<target.p>>)
      P1 == IF got.c # QUESTION_MARK THEN Run("Parser_inc", <<got.p>>) ELSE got.p
  IN
  IF Failed(target.p) THEN target
  ELSE IF ~Run("valid_name", <<target.v, FALSE>>) THEN
    IF xml_declaration_detected(detect_xml_declaration, target.v)
      THEN Val(target.p, pi)
      ELSE ThrownVal(target.p, "Processing instruction target name must not start with 'xml' (case-insensitive)")
  ELSE IF Failed(got.p) THEN ThrownVal(got.p, got.p.err)
  ELSE IF Failed(P1) THEN ThrownVal(P1, P1.err)
  ELSE Run("parse_processing_instruction_loop", <<P1, pi, NO_CHAR>>)


(***************************************************************************)
(* The document type definition (parser.cpp).  A routine that updates the  *)
(* DTD returns [p, v] where v is the updated DTD.                          *)
(***************************************************************************)
PUBLIC_ID_CHARACTERS ==
  Run("Txt", <<"MINUS", "SQ", "LPAR", "RPAR", "PLUSS", "COMMA", "DOT", "SLASH",
        "COLON", "EQ", "QM", "SEMI", "BANG", "STAR", "HASH", "USCORE", "PCT",
        "SP", "CR", "LF">>) \o <<64, 36>>

valid_public_id_character(ch) ==
  \/ (ch >= Run("Txt", <<"a">>)[1] /\ ch <= Run("Txt", <<"z">>)[1]) \/ (ch
    >= Run("Txt", <<"A">>)[1] /\ ch <= Run("Txt", <<"Z">>)[1])
  \/ (ch >= Run("Txt", <<"D0">>)[1] /\ ch <= Run("Txt", <<"D9">>)[1])
  \/ ch \in Range(PUBLIC_ID_CHARACTERS)

\* The loops of parse_public_id and parse_system_id.
parse_id_literal(P, quote, is_public, id) ==
  LET got == Run("Parser_get", <<P>>)
      P1 == Run("Parser_inc", <<got.p>>)
  IN
  IF Failed(got.p) THEN ThrownVal(got.p, got.p.err)
  ELSE IF got.c = quote THEN
    IF Failed(P1) THEN ThrownVal(P1, P1.err) ELSE Val(P1, id)
  ELSE IF is_public /\ ~valid_public_id_character(got.c)
    THEN ThrownVal(got.p, "Invalid public ID character")
  ELSE IF ~is_public /\ ~valid_character(got.c)
    THEN ThrownVal(got.p, "Invalid system ID character")
  ELSE IF Failed(P1) THEN ThrownVal(P1, P1.err)
  ELSE Run("parse_id_literal", <<P1, quote, is_public, Append(id, got.c)>>)

\* Parser::parse_public_id and Parser::parse_system_id.  Every file of the
\* model is in one folder, so the identifier is the path.
parse_public_or_system_id(P, is_public) ==
  LET got == Run("Parser_get", <<P>>)
      P1 == Run("Parser_inc", <<got.p>>)
  IN
  IF Failed(got.p) THEN ThrownVal(got.p, got.p.err)
  ELSE IF Failed(P1) THEN ThrownVal(P1, P1.err)
  ELSE IF got.c # SINGLE_QUOTE /\ got.c # DOUBLE_QUOTE
    THEN ThrownVal(P1, IF is_public
                         THEN "Public ID literal must start with a quote"
                         ELSE "System ID literal must start with a quote")
  ELSE Run("parse_id_literal", <<P1, got.c, is_public, <<>>>>)

parse_public_id(P) == Run("parse_public_or_system_id", <<P, TRUE>>)
parse_system_id(P) == Run("parse_public_or_system_id", <<P, FALSE>>)

\* get() or get(parameter_entities), as the optional table says.
get_optional(P, parameter_entities) ==
  IF parameter_entities.null THEN Run("Parser_get", <<P>>)
  ELSE Run("Parser_get_parameter", <<P, parameter_entities.table, TRUE, FALSE, FALSE>>)

ignore_whitespace_optional(P, parameter_entities) ==
  IF parameter_entities.null THEN Run("ignore_whitespace", <<P>>)
  ELSE Run("ignore_whitespace_parameter", <<P, parameter_entities.table>>)

\* Parser::parse_external_id(parameter_entities): [p, v], v the external ID.
\* A type that is neither SYSTEM nor PUBLIC makes the map's at() throw
\* std::out_of_range, which the handler for XmlError does not catch.
parse_external_id(P, parameter_entities) ==
  LET type_string == Run("parse_name", <<P, WHITESPACE, FALSE, parameter_entities, {}>>)
      type == IF type_string.v = Run("Txt", <<"S", "Y", "S", "T", "E", "M">>)
                THEN "system"
              ELSE IF type_string.v = Run("Txt", <<"P", "U", "B", "L", "I",
                "C">>)
                THEN "public_" ELSE "none"
      P1 == Run("ignore_whitespace_optional", <<type_string.p, parameter_entities>>)
      public_id == Run("parse_public_id", <<P1>>)
      gap == Run("get_optional", <<public_id.p, parameter_entities>>)
      P2 == Run("ignore_whitespace_optional", <<gap.p, parameter_entities>>)
      P3 == IF type = "public_" THEN P2 ELSE P1
      system_id == Run("parse_system_id", <<P3>>)
  IN
  IF Failed(type_string.p) THEN type_string
  ELSE IF type = "none" THEN ThrownVal(type_string.p, "std::out_of_range")
  ELSE IF Failed(P1) THEN ThrownVal(P1, P1.err)
  ELSE IF type = "public_" /\ Failed(public_id.p) THEN public_id
  ELSE IF type = "public_" /\ Failed(gap.p) THEN ThrownVal(gap.p, gap.p.err)
  ELSE IF type = "public_" /\ ~is_whitespace(gap.c)
    THEN ThrownVal(gap.p, "Expected whitespace")
  ELSE IF Failed(P3) THEN ThrownVal(P3, P3.err)
  ELSE IF Failed(system_id.p) THEN system_id
  ELSE Val(system_id.p,
           [type |-> type, system_id |-> system_id.v,
            public_id |-> IF type = "public_" THEN public_id.v ELSE <<>>])

parse_entity_value_loop(P, dtd, quote, value, parameter_entity_stack_size_before) ==
  LET got == Run("Parser_get_parameter", <<P, dtd.parameter_entities, FALSE, TRUE, FALSE>>)
      parameter_entity_stack_size == Len(got.p.parameter_entity_stack)
      P1 == Run("Parser_inc", <<got.p>>)
      P2 == IF parameter_entity_eof(P1) THEN end_parameter_entity(P1) ELSE P1
      nxt == Run("Parser_get_parameter", <<P2, dtd.parameter_entities, TRUE, FALSE, FALSE>>)
      P3 == Run("Parser_inc", <<nxt.p>>)
      reference == Run("parse_character_reference", <<P3>>)
      named == Run("parse_general_entity_name", <<nxt.p, <<>>>>)
  IN
  IF Failed(got.p) THEN ThrownVal(got.p, got.p.err)
  ELSE IF Failed(P1) THEN ThrownVal(P1, P1.err)
  ELSE IF got.c = AMPERSAND /\ ~P2.just_parsed_character_reference THEN
    IF Failed(nxt.p) THEN ThrownVal(nxt.p, nxt.p.err)
    ELSE IF nxt.c = OCTOTHORPE THEN
      IF Failed(P3) THEN ThrownVal(P3, P3.err)
      ELSE IF Failed(reference.p) THEN ThrownVal(reference.p, reference.p.err)
      ELSE Run("parse_entity_value_loop", <<reference.p, dtd, quote, Append(value, reference.c), parameter_entity_stack_size_before>>)
    ELSE IF Failed(named.p) THEN named
    ELSE IF /\ named.v \in DOMAIN dtd.general_entities
            /\ dtd.general_entities[named.v].is_unparsed
      THEN ThrownVal(named.p,
                     "Cannot have refernce to unparsed entity in entity value")
    ELSE Run("parse_entity_value_loop", <<named.p, dtd, quote, value \o <<AMPERSAND>> \o named.v \o <<SEMI_COLON>>, parameter_entity_stack_size_before>>)
  ELSE IF /\ got.c = quote
          /\ parameter_entity_stack_size <= parameter_entity_stack_size_before
    THEN Val(P2, value)
  ELSE Run("parse_entity_value_loop", <<P2, dtd, quote, Append(value, got.c), parameter_entity_stack_size_before>>)

\* Parser::parse_entity_value(dtd): [p, v], v the literal entity value.
parse_entity_value(P, dtd) ==
  LET got == Run("Parser_get_parameter", <<P, dtd.parameter_entities, TRUE, FALSE, FALSE>>)
      P1 == Run("Parser_inc", <<got.p>>)
  IN
  IF Failed(got.p) THEN ThrownVal(got.p, got.p.err)
  ELSE IF got.c # SINGLE_QUOTE /\ got.c # DOUBLE_QUOTE
    THEN ThrownVal(got.p, "Entity value must start with a quote")
  ELSE IF Failed(P1) THEN ThrownVal(P1, P1.err)
  ELSE Run("parse_entity_value_loop", <<P1, dtd, got.c, <<>>, Len(P1.parameter_entity_stack)>>)


\* The inner loop of expand_character_references; ii counts from 0.
read_character_reference_text(string, ii, char_ref) ==
  IF ii >= Len(string) THEN [v |-> char_ref, ii |-> ii, err |-> "std::out_of_range"]
  ELSE IF string[ii + 1] = SEMI_COLON
    THEN [v |-> Append(char_ref, SEMI_COLON), ii |-> ii + 1, err |-> ""]
  ELSE Run("read_character_reference_text", <<string, ii + 1, Append(char_ref, string[ii + 1])>>)

\* The for loop of expand_character_references; ii counts from 0.
expand_character_references_from(string, ii, result, beyond) ==
  IF ii >= Len(string) THEN [v |-> result, err |-> ""]
  ELSE IF string[ii + 1] # AMPERSAND
    THEN Run("expand_character_references_from", <<string, ii + 1, Append(result, string[ii + 1]), beyond>>)
  ELSE IF ii + 1 >= Len(string) THEN [v |-> result, err |-> "std::out_of_range"]
  ELSE IF string[ii + 2] # OCTOTHORPE
    THEN Run("expand_character_references_from", <<string, ii + 1, Append(result, string[ii + 1]), beyond>>)
  ELSE
    LET char_ref == Run("read_character_reference_text", <<string, ii + 2, <<>>>>)
        value == Run("xml_parse_character_reference", <<char_ref.v, beyond>>)
    IN IF char_ref.err # "" THEN [v |-> result, err |-> char_ref.err]
       ELSE IF value.err # "" THEN [v |-> result, err |-> value.err]
       ELSE Run("expand_character_references_from", <<string, char_ref.ii + 1, Append(result, value.v), beyond>>)

\* expand_character_references(string): [v, err].
expand_character_references(string, beyond) ==
  Run("expand_character_references_from", <<string, 0, <<>>, beyond>>)

BUILT_IN_GENERAL_ENTITIES_MANDATORY_DOUBLE_ESCAPE ==
  {Run("Txt", <<"l", "t">>), Run("Txt", <<"a", "m", "p">>)}

WHITESPACE_AND_RIGHT_ANGLE_BRACKET == WHITESPACE \o <<RIGHT_ANGLE_BRACKET>>

\* The check parse_general_entity_declaration makes of a declaration of a
\* built-in entity: the error it throws, or "".
built_in_entity_error(ge, beyond) ==
  LET expected == Run("expand_character_references", <<BUILT_IN_GENERAL_ENTITIES[ge.name].value, beyond>>)
      expansion == Run("expand_character_references", <<ge.value, beyond>>)
  IN IF expected.err # "" THEN expected.err
     ELSE IF expansion.err # "" THEN expansion.err
     ELSE IF ge.name \in BUILT_IN_GENERAL_ENTITIES_MANDATORY_DOUBLE_ESCAPE THEN
       IF ge.value = expected.v \/ expansion.v # expected.v
         THEN "Entity value does not match built-in value (double-escape mandatory)"
         ELSE ""
     ELSE IF ge.value # expected.v /\ expansion.v # expected.v
       THEN "Entity value does not match built-in value"
     ELSE ""

\* The external branch of parse_general_entity_declaration: [p, v], v the
\* entity.
parse_external_general_entity(P, dtd, ge) ==
  LET pe == Table(dtd.parameter_entities)
      external_id == Run("parse_external_id", <<P, pe>>)
      gap == Run("get_optional", <<external_id.p, pe>>)
      at_least_one_whitespace == is_whitespace(gap.c)
      P1 == Run("ignore_whitespace_optional", <<gap.p, pe>>)
      closing == Run("get_optional", <<P1, pe>>)
      ndata == Run("parse_name", <<closing.p, WHITESPACE, TRUE, pe, {}>>)
      P2 == Run("ignore_whitespace_optional", <<ndata.p, pe>>)
      notation_name == Run("parse_name", <<P2, WHITESPACE_AND_RIGHT_ANGLE_BRACKET, TRUE, pe, {}>>)
      external == [ge EXCEPT !.is_external = TRUE,
                             !.external_id = external_id.v]
  IN
  IF Failed(external_id.p) THEN external_id
  ELSE IF Failed(gap.p) THEN ThrownVal(gap.p, gap.p.err)
  ELSE IF Failed(P1) THEN ThrownVal(P1, P1.err)
  ELSE IF Failed(closing.p) THEN ThrownVal(closing.p, closing.p.err)
  ELSE IF closing.c = RIGHT_ANGLE_BRACKET THEN Val(closing.p, external)
  ELSE IF ~at_least_one_whitespace
    THEN ThrownVal(closing.p, "Expected whitespace")
  ELSE IF Failed(ndata.p) THEN ndata
  ELSE IF ndata.v # Run("Txt", <<"N", "D", "A", "T", "A">>)
    THEN ThrownVal(ndata.p, "Expected 'NDATA'")
  ELSE IF Failed(P2) THEN ThrownVal(P2, P2.err)
  ELSE IF Failed(notation_name.p) THEN notation_name
  ELSE Val(notation_name.p,
           [external EXCEPT !.is_unparsed = TRUE,
                            !.notation_name = notation_name.v])

\* Parser::parse_general_entity_declaration.
parse_general_entity_declaration(P, dtd) ==
  LET pe == Table(dtd.parameter_entities)
      name == Run("parse_name", <<P, WHITESPACE, TRUE, pe, {}>>)
      P1 == Run("ignore_whitespace_optional", <<name.p, pe>>)
      quote == Run("get_optional", <<P1, pe>>)
      ge0 == [Entity(<<>>) EXCEPT !.name = name.v]
      value == Run("parse_entity_value", <<quote.p, dtd>>)
      parsed == IF quote.c = SINGLE_QUOTE \/ quote.c = DOUBLE_QUOTE
                  THEN Val(value.p, [ge0 EXCEPT !.value = value.v])
                  ELSE Run("parse_external_general_entity", <<quote.p, dtd, ge0>>)
      ge == parsed.v
      Q == parsed.p
      built_in_error == built_in_entity_error(ge, P.ctype_beyond)
  IN
  IF Failed(name.p) THEN name
  ELSE IF Failed(P1) THEN ThrownVal(P1, P1.err)
  ELSE IF Failed(quote.p) THEN ThrownVal(quote.p, quote.p.err)
  ELSE IF Failed(Q) THEN ThrownVal(Q, Q.err)
  ELSE IF ge.name \in DOMAIN BUILT_IN_GENERAL_ENTITIES /\ built_in_error # ""
    THEN ThrownVal(Q, built_in_error)
  ELSE IF ge.name \in DOMAIN dtd.general_entities THEN Val(Q, dtd)
  ELSE Val(Q, [dtd EXCEPT
                 !.general_entities =
                    Put(@, ge.name,
                        [ge EXCEPT
                           !.from_external = Q.external_dtd_content_active])])

\* Parser::parse_parameter_entity_declaration.
parse_parameter_entity_declaration(P, dtd) ==
  LET table == Table(dtd.parameter_entities)
      name == Run("parse_name", <<P, WHITESPACE, TRUE, table, {}>>)
      P1 == Run("ignore_whitespace_optional", <<name.p, table>>)
      quote == Run("get_optional", <<P1, table>>)
      pe0 == [Entity(<<>>) EXCEPT !.name = name.v]
      value == Run("parse_entity_value", <<quote.p, dtd>>)
      external_id == Run("parse_external_id", <<quote.p, table>>)
      parsed == IF quote.c = SINGLE_QUOTE \/ quote.c = DOUBLE_QUOTE
                  THEN Val(value.p, [pe0 EXCEPT !.value = value.v])
                  ELSE Val(external_id.p,
                           [pe0 EXCEPT !.is_external = TRUE,
                                       !.external_id = external_id.v])
      pe == parsed.v
      Q == parsed.p
  IN
  IF Failed(name.p) THEN name
  ELSE IF Failed(P1) THEN ThrownVal(P1, P1.err)
  ELSE IF Failed(quote.p) THEN ThrownVal(quote.p, quote.p.err)
  ELSE IF Failed(Q) THEN ThrownVal(Q, Q.err)
  ELSE IF pe.name \in DOMAIN dtd.parameter_entities THEN Val(Q, dtd)
  ELSE Val(Q, [dtd EXCEPT
                 !.parameter_entities =
                    Put(@, pe.name,
                        [pe EXCEPT
                           !.from_external = Q.external_dtd_content_active])])

\* The end of a declaration: optional whitespace, then '>'.
close_declaration(P, dtd, missing) ==
  LET P1 == Run("ignore_whitespace_parameter", <<P, dtd.parameter_entities>>)
      closing == Run("Parser_get_parameter", <<P1, dtd.parameter_entities, TRUE, FALSE, FALSE>>)
      P2 == Run("Parser_inc", <<closing.p>>)
  IN
  IF Failed(P1) THEN ThrownVal(P1, P1.err)
  ELSE IF Failed(closing.p) THEN ThrownVal(closing.p, closing.p.err)
  ELSE IF closing.c # RIGHT_ANGLE_BRACKET THEN ThrownVal(closing.p, missing)
  ELSE IF Failed(P2) THEN ThrownVal(P2, P2.err)
  ELSE Val(P2, dtd)

\* Parser::parse_entity_declaration.
parse_entity_declaration(P, dtd) ==
  LET P1 == Run("ignore_whitespace", <<P>>)
      percent == Run("Parser_get_parameter", <<P1, dtd.parameter_entities, TRUE, FALSE, TRUE>>)
      P2 == Run("ignore_whitespace_parameter", <<percent.p, dtd.parameter_entities>>)
      declared == IF percent.c = PERCENT_SIGN
                    THEN Run("parse_parameter_entity_declaration", <<P2, dtd>>)
                    ELSE Run("parse_general_entity_declaration", <<percent.p, dtd>>)
  IN
  IF Failed(P1) THEN ThrownVal(P1, P1.err)
  ELSE IF Failed(percent.p) THEN ThrownVal(percent.p, percent.p.err)
  ELSE IF percent.c = PERCENT_SIGN /\ Failed(P2) THEN ThrownVal(P2, P2.err)
  ELSE IF Failed(declared.p) THEN declared
  ELSE Run("close_declaration", <<declared.p, declared.v, "Expected '>">>)


ATTRIBUTE_TYPES ==
  [ name \in { Run("Txt", <<"C", "D", "A", "T", "A">>), Run("Txt", <<"I",
    "D">>),
               Run("Txt", <<"I", "D", "R", "E", "F">>),
               Run("Txt", <<"I", "D", "R", "E", "F", "S">>),
               Run("Txt", <<"E", "N", "T", "I", "T", "Y">>),
               Run("Txt", <<"E", "N", "T", "I", "T", "I", "E", "S">>),
               Run("Txt", <<"N", "M", "T", "O", "K", "E", "N">>),
               Run("Txt", <<"N", "M", "T", "O", "K", "E", "N", "S">>),
               Run("Txt", <<"N", "O", "T", "A", "T", "I", "O", "N">>) } |->
      CASE name = Run("Txt", <<"C", "D", "A", "T", "A">>) -> "cdata"
        [] name = Run("Txt", <<"I", "D">>) -> "id"
        [] name = Run("Txt", <<"I", "D", "R", "E", "F">>) -> "idref"
        [] name = Run("Txt", <<"I", "D", "R", "E", "F", "S">>) -> "idrefs"
        [] name = Run("Txt", <<"E", "N", "T", "I", "T", "Y">>) -> "entity"
        [] name = Run("Txt", <<"E", "N", "T", "I", "T", "I", "E", "S">>) ->
          "entities"
        [] name = Run("Txt", <<"N", "M", "T", "O", "K", "E", "N">>) ->
          "nmtoken"
        [] name = Run("Txt", <<"N", "M", "T", "O", "K", "E", "N", "S">>) ->
          "nmtokens"
        [] OTHER -> "notation" ]

ATTRIBUTE_PRESENCES ==
  [ name \in { Run("Txt", <<"R", "E", "Q", "U", "I", "R", "E", "D">>),
               Run("Txt", <<"I", "M", "P", "L", "I", "E", "D">>),
               Run("Txt", <<"F", "I", "X", "E", "D">>) } |->
      CASE name = Run("Txt", <<"R", "E", "Q", "U", "I", "R", "E", "D">>) ->
        "required"
        [] name = Run("Txt", <<"I", "M", "P", "L", "I", "E", "D">>) ->
          "implied"
        [] OTHER -> "fixed" ]

\* An attribute declaration (utils.h).  The field in_external_entity is a
\* history variable: the declaration was read while a stream of an external
\* entity (external subset or external parameter entity) was open.
AttributeDeclaration ==
  [ name |-> <<>>, type |-> "cdata", presence |-> "relaxed", notations |-> {},
    enumeration |-> {}, has_default_value |-> FALSE, default_value |-> <<>>,
    from_external |-> FALSE, in_external_entity |-> FALSE ]

InExternalEntity(P) ==
  \E ii \in 1..Len(P.parameter_entity_stack) :
    P.parameter_entity_stack[ii].is_external

\* Parser::parse_attribute_declaration(dtd, attlist), where attlist is the
\* list of element_name.  Enumerations and notations are outside this model.
parse_attribute_declaration(P, dtd0, element_name) ==
  LET dtd == IF element_name \in DOMAIN dtd0.attribute_list_declarations
               THEN dtd0
               ELSE [dtd0 EXCEPT !.attribute_list_declarations =
                                    Put(@, element_name, EmptyMap)]
      pes == dtd.parameter_entities
      \* The declaration is recorded unless the attribute is already
      \* declared for the element.
      declare(Q, ad) ==
        IF Failed(Q) THEN ThrownVal(Q, Q.err)
        ELSE IF ad.name \in DOMAIN dtd.attribute_list_declarations[element_name]
          THEN Val(Q, dtd)
        ELSE IF ad.name = XML_SPACE
          THEN ThrownVal(Q, "xml:space special attribute must be an enumeration with one or both of 'default' or 'preserve' as options")
        ELSE Val(Q, [dtd EXCEPT !.attribute_list_declarations[element_name] =
                                   Put(@, ad.name, ad)])
      default(value, name, type, presence, has_default_value) ==
        declare(value.p,
                [AttributeDeclaration EXCEPT
                   !.name = name, !.type = type, !.presence = presence,
                   !.has_default_value = has_default_value,
                   !.default_value = value.v,
                   !.from_external = value.p.external_dtd_content_active,
                   !.in_external_entity = InExternalEntity(value.p)])
      after_presence(P4, name, type, presence) ==
        LET has_default_value == presence \in {"fixed", "relaxed"}
            P5 == Run("ignore_whitespace_parameter", <<P4, pes>>)
        IN IF has_default_value /\ Failed(P5) THEN ThrownVal(P5, P5.err)
           ELSE default(IF has_default_value
                          THEN Run("parse_attribute_value", <<P5, dtd, TRUE, FALSE>>)
                          ELSE Val(P4, <<>>),
                        name, type, presence, has_default_value)
      after_hash(hash, name, type) ==
        LET P3 == Run("Parser_inc", <<hash.p>>)
            presence_name == Run("parse_name", <<P3, WHITESPACE_AND_RIGHT_ANGLE_BRACKET, TRUE, Table(pes), {}>>)
        IN IF Failed(hash.p) THEN ThrownVal(hash.p, hash.p.err)
           ELSE IF hash.c # OCTOTHORPE
             THEN after_presence(hash.p, name, type, "relaxed")
           ELSE IF Failed(P3) THEN ThrownVal(P3, P3.err)
           ELSE IF Failed(presence_name.p) THEN presence_name
           ELSE IF presence_name.v \notin DOMAIN ATTRIBUTE_PRESENCES
             THEN ThrownVal(presence_name.p, "Attribute presence must be 'REQUIRED', 'IMPLIED', 'FIXED' or none")
           ELSE after_presence(presence_name.p, name,
                               type, ATTRIBUTE_PRESENCES[presence_name.v])
      after_type(type_name, name) ==
        LET P2 == Run("ignore_whitespace_parameter", <<type_name.p, pes>>) IN
        IF Failed(type_name.p) THEN type_name
        ELSE IF type_name.v \notin DOMAIN ATTRIBUTE_TYPES
          THEN ThrownVal(type_name.p, "Invalid attribute type")
        ELSE IF Failed(P2) THEN ThrownVal(P2, P2.err)
        ELSE IF ATTRIBUTE_TYPES[type_name.v] = "notation"
          THEN ThrownVal(P2, "outside the model: notation attribute")
        ELSE after_hash(Run("Parser_get_parameter", <<P2, pes, TRUE, FALSE, FALSE>>),
                        name, ATTRIBUTE_TYPES[type_name.v])
      after_name(name) ==
        LET P1 == Run("ignore_whitespace_parameter", <<name.p, pes>>)
            first == Run("Parser_get_parameter", <<P1, pes, TRUE, FALSE, FALSE>>)
        IN IF Failed(name.p) THEN name
           ELSE IF Failed(P1) THEN ThrownVal(P1, P1.err)
           ELSE IF Failed(first.p) THEN ThrownVal(first.p, first.p.err)
           ELSE IF first.c = LEFT_PARENTHESIS
             THEN ThrownVal(first.p, "outside the model: enumeration")
           ELSE after_type(Run("parse_name", <<first.p, WHITESPACE, TRUE, Table(pes), {}>>),
                           name.v)
  IN after_name(Run("parse_name", <<P, WHITESPACE, TRUE, Table(pes), SPECIAL_ATTRIBUTE_NAMES>>))

\* The loop of parse_attribute_list_declaration.
parse_attribute_declarations(P, dtd, element_name) ==
  LET got == Run("Parser_get_parameter", <<P, dtd.parameter_entities, TRUE, FALSE, FALSE>>)
      P1 == Run("Parser_inc", <<got.p>>)
      declared == Run("parse_attribute_declaration", <<got.p, dtd, element_name>>)
  IN
  IF Failed(got.p) THEN ThrownVal(got.p, got.p.err)
  ELSE IF is_whitespace(got.c) \/ got.c = RIGHT_ANGLE_BRACKET THEN
    IF Failed(P1) THEN ThrownVal(P1, P1.err)
    ELSE IF got.c = RIGHT_ANGLE_BRACKET THEN Val(P1, dtd)
    ELSE Run("parse_attribute_declarations", <<P1, dtd, element_name>>)
  ELSE IF Failed(declared.p) THEN declared
  ELSE Run("parse_attribute_declarations", <<declared.p, declared.v, element_name>>)

\* Parser::parse_attribute_list_declaration.
parse_attribute_list_declaration(P, dtd) ==
  LET pes == dtd.parameter_entities
      P1 == Run("ignore_whitespace_parameter", <<P, pes>>)
      element_name == Run("parse_name", <<P1, WHITESPACE, TRUE, Table(pes), {}>>)
      P2 == Run("ignore_whitespace_parameter", <<element_name.p, pes>>)
  IN
  IF Failed(P1) THEN ThrownVal(P1, P1.err)
  ELSE IF Failed(element_name.p) THEN element_name
  ELSE IF Failed(P2) THEN ThrownVal(P2, P2.err)
  ELSE Run("parse_attribute_declarations", <<P2, dtd, element_name.v>>)


(***************************************************************************)
(* Validation of the attribute list declarations (validate.cpp).           *)
(***************************************************************************)
valid_nmtoken(nmtoken) ==
  nmtoken # <<>> /\ \A ii \in 1..Len(nmtoken) : valid_name_character(nmtoken[ii])

\* The loop of valid_names_or_nmtokens: value is the token read so far.
valid_names_or_nmtokens_from(string, ii, is_nmtokens, value) ==
  IF ii > Len(string) THEN value # <<>>
  ELSE IF string[ii] = SPACE THEN
    IF \/ ~is_nmtokens /\ ~Run("valid_name", <<value, TRUE>>)
       \/ is_nmtokens /\ ~Run("valid_nmtoken", <<value>>)
      THEN FALSE
      ELSE Run("valid_names_or_nmtokens_from", <<string, ii + 1, is_nmtokens, <<>>>>)
  ELSE Run("valid_names_or_nmtokens_from", <<string, ii + 1, is_nmtokens, Append(value, string[ii])>>)

valid_names_or_nmtokens(string, is_nmtokens) ==
  IF string = <<>> THEN FALSE
  ELSE Run("valid_names_or_nmtokens_from", <<string, 1, is_nmtokens, <<>>>>)

valid_names(names) == Run("valid_names_or_nmtokens", <<names, FALSE>>)
valid_nmtokens(nmtokens) == Run("valid_names_or_nmtokens", <<nmtokens, TRUE>>)

\* validate_default_attribute_value(ad, dtd, value): the error, or "".
validate_default_attribute_value(ad, value) ==
  IF ad.type \in {"id", "idref", "entity"} THEN
    IF Run("valid_name", <<value, TRUE>>) THEN "" ELSE "Attribute value must match Name"
  ELSE IF ad.type \in {"idrefs", "entities"} THEN
    IF Run("valid_names", <<value>>) THEN "" ELSE "Attribute value must match Names"
  ELSE IF ad.type = "nmtoken" THEN
    IF Run("valid_nmtoken", <<value>>) THEN "" ELSE "Attribute value must match Nmtoken"
  ELSE IF ad.type = "nmtokens" THEN
    IF Run("valid_nmtokens", <<value>>) THEN "" ELSE "Attribute value must match Nmtokens"
  ELSE IF ad.type = "notation" THEN
    IF value \in ad.notations THEN ""
    ELSE "Attribute value must match one of the notation names"
  ELSE IF ad.type = "enumeration" THEN
    IF value \in ad.enumeration THEN ""
    ELSE "Attribute value must match one of the enumeration values"
  ELSE ""

\* validate_attribute_list_declarations(dtd): the error, or "".  When more
\* than one declaration is in error the message is that of one of them.
validate_attribute_list_declarations(dtd) ==
  LET lists == dtd.attribute_list_declarations
      ids(element_name) ==
        {name \in DOMAIN lists[element_name] :
           lists[element_name][name].type = "id"}
      notations(element_name) ==
        {name \in DOMAIN lists[element_name] :
           lists[element_name][name].type = "notation"}
  IN
  IF \E element_name \in DOMAIN lists : \E name \in ids(element_name) :
       lists[element_name][name].presence \notin {"required", "implied"}
    THEN "ID attribute must be #IMPLIED or #REQUIRED"
  ELSE IF \E element_name \in DOMAIN lists : Cardinality(ids(element_name)) > 1
    THEN "Single ID attribute only"
  ELSE IF \E element_name \in DOMAIN lists :
            Cardinality(notations(element_name)) > 1
    THEN "Single notation attribute only"
  ELSE IF \E element_name \in DOMAIN lists :
            /\ notations(element_name) # {}
            /\ element_name \in DOMAIN dtd.element_declarations
            /\ dtd.element_declarations[element_name].type = "empty"
    THEN "Notation attribute must not be declared on an EMPTY element"
  ELSE IF \E element_name \in DOMAIN lists :
            \E name \in notations(element_name) :
              ~(lists[element_name][name].notations
                  \subseteq DOMAIN dtd.notation_declarations)
    THEN "All notation names must be declared"
  ELSE IF \E element_name \in DOMAIN lists :
            \E name \in DOMAIN lists[element_name] :
              /\ lists[element_name][name].has_default_value
              /\ Run("validate_default_attribute_value", <<lists[element_name][name], lists[element_name][name].default_value>>) # ""
    THEN "Default value error for attribute"
  ELSE ""


(***************************************************************************)
(* The DTD subsets and the DOCTYPE declaration (parser.cpp).               *)
(***************************************************************************)
\* struct ElementContentModel, as parse_element_content_model builds it for
\* a name and for a parenthesised group.
NameModel(name, count) ==
  [ count |-> count, is_sequence |-> FALSE, parts |-> <<>>, is_name |-> TRUE,
    name |-> name ]

GroupModel(is_sequence, parts, count) ==
  [ count |-> count, is_sequence |-> is_sequence, parts |-> parts,
    is_name |-> FALSE, name |-> <<>> ]

ELEMENT_CONTENT_COUNT_SYMBOLS ==
  (QUESTION_MARK :> "zero_or_one") @@ (ASTERISK :> "zero_or_more")
    @@ (PLUS :> "one_or_more")

ELEMENT_CONTENT_NAME_TERMINATORS ==
  WHITESPACE \o <<QUESTION_MARK, ASTERISK, PLUS, COMMA, VERTICAL_BAR,
                  RIGHT_PARENTHESIS>>

\* The count symbol that may follow a name or a group of a content model:
\* [p, v], v the count.
parse_element_content_count(P, pes) ==
  LET symbol == Run("Parser_get_parameter", <<P, pes, TRUE, FALSE, FALSE>>) IN
  IF Failed(symbol.p) THEN ThrownVal(symbol.p, symbol.p.err)
  ELSE IF symbol.c \in DOMAIN ELEMENT_CONTENT_COUNT_SYMBOLS
    THEN Val(Run("Parser_inc", <<symbol.p>>), ELEMENT_CONTENT_COUNT_SYMBOLS[symbol.c])
  ELSE Val(symbol.p, "one")

\* The loop of Parser::parse_element_content_model: [p, v], v the model.
parse_element_content_model_loop(P, pes, parameter_entity_stack_size_before, ecm, separator_seen, separator_next) ==
  LET got == Run("Parser_get_parameter", <<P, pes, TRUE, FALSE, FALSE>>)
      size == Len(got.p.parameter_entity_stack)
      P1 == Run("Parser_inc", <<got.p>>)
      count == Run("parse_element_content_count", <<P1, pes>>)
      P2 == Run("ignore_whitespace_parameter", <<P1, pes>>)
      group == Run("parse_element_content_model", <<P2, pes, size>>)
      name == Run("parse_name", <<got.p, ELEMENT_CONTENT_NAME_TERMINATORS, TRUE, Table(pes), {}>>)
      name_count == Run("parse_element_content_count", <<name.p, pes>>)
  IN
  IF Failed(got.p) THEN ThrownVal(got.p, got.p.err)
  ELSE IF size < parameter_entity_stack_size_before
    THEN ThrownVal(got.p, "Opening and closing parentheses of element content model must be in the same parameter entity text")
  ELSE IF is_whitespace(got.c) THEN
    IF Failed(P1) THEN ThrownVal(P1, P1.err)
    ELSE Run("parse_element_content_model_loop", <<P1, pes, parameter_entity_stack_size_before, ecm, separator_seen, separator_next>>)
  ELSE IF got.c = RIGHT_PARENTHESIS THEN
    IF size # parameter_entity_stack_size_before
      THEN ThrownVal(got.p, "Opening and closing parentheses of element content model must be in the same parameter entity text")
    ELSE IF ecm.parts = <<>> THEN ThrownVal(got.p, "Empty element content model")
    ELSE IF ~separator_next
      THEN ThrownVal(got.p, "Element content model cannot end on separator")
    ELSE IF Failed(P1) THEN ThrownVal(P1, P1.err)
    ELSE IF Failed(count.p) THEN count
    ELSE Val(count.p, [ecm EXCEPT !.count = count.v])
  ELSE IF got.c \in {COMMA, VERTICAL_BAR} THEN
    IF Failed(P1) THEN ThrownVal(P1, P1.err)
    ELSE IF ~separator_next THEN ThrownVal(P1, "Unexpected separator")
    ELSE IF separator_seen /\ (got.c = COMMA) # ecm.is_sequence
      THEN ThrownVal(P1, "Inconsistent separator")
    ELSE Run("parse_element_content_model_loop", <<P1, pes, parameter_entity_stack_size_before, [ecm EXCEPT !.is_sequence = IF separator_seen THEN @ ELSE got.c = COMMA], TRUE, FALSE>>)
  ELSE IF separator_next THEN ThrownVal(got.p, "Expected separator")
  ELSE IF got.c = LEFT_PARENTHESIS THEN
    IF Failed(P1) THEN ThrownVal(P1, P1.err)
    ELSE IF Failed(P2) THEN ThrownVal(P2, P2.err)
    ELSE IF Failed(group.p) THEN group
    ELSE Run("parse_element_content_model_loop", <<group.p, pes, parameter_entity_stack_size_before, [ecm EXCEPT !.parts = Append(@, group.v)], separator_seen, TRUE>>)
  ELSE IF Failed(name.p) THEN name
  ELSE IF Failed(name_count.p) THEN name_count
  ELSE Run("parse_element_content_model_loop", <<name_count.p, pes, parameter_entity_stack_size_before, [ecm EXCEPT !.parts = Append(@, NameModel(name.v, name_count.v))], separator_seen, TRUE>>)

\* Parser::parse_element_content_model(parameter_entities,
\* parameter_entity_stack_size_before): [p, v], v the model.
parse_element_content_model(P, pes, parameter_entity_stack_size_before) ==
  Run("parse_element_content_model_loop", <<P, pes, parameter_entity_stack_size_before, GroupModel(TRUE, <<>>, "one"), FALSE, FALSE>>)

\* An element declaration (utils.h).  The content model of the type mixed
\* is read by a routine outside this model.
ElementDeclaration(name, type) ==
  [ type |-> type, name |-> name, element_content |-> <<>>,
    mixed_content |-> <<>> ]

\* The declaration that is stored under a name that has one already.
element_redeclaration_replaces(dtd, name) == ""

\* The check parse_element_declaration makes of the name: the message of the
\* exception, "" when there is none.
element_redeclaration_refused(dtd, name) ==
  IF name \in DOMAIN dtd.element_declarations
    THEN "Element re-declaration" ELSE ""

\* Parser::parse_element_declaration from the type on: EMPTY or ANY.
parse_element_declaration_type(P, dtd, name) ==
  LET pes == dtd.parameter_entities
      got == Run("Parser_get_parameter", <<P, pes, TRUE, FALSE, FALSE>>)
      element_type == Run("parse_name", <<got.p, WHITESPACE_AND_RIGHT_ANGLE_BRACKET, FALSE, Table(pes), {}>>)
      type == IF element_type.v = Run("Txt", <<"E", "M", "P", "T", "Y">>)
        THEN "empty" ELSE "any"
      closing == Run("close_declaration", <<element_type.p, dtd, "Expected '>'">>)
      parameter_entity_stack_size == Len(got.p.parameter_entity_stack)
      P1 == Run("Parser_inc", <<got.p>>)
      P2 == Run("ignore_whitespace_parameter", <<P1, pes>>)
      next == Run("Parser_get_parameter", <<P2, pes, TRUE, FALSE, FALSE>>)
      ecm == Run("parse_element_content_model", <<next.p, pes, parameter_entity_stack_size>>)
      ended == Run("close_declaration", <<ecm.p, dtd, "Expected '>'">>)
  IN
  IF Failed(got.p) THEN ThrownVal(got.p, got.p.err)
  ELSE IF got.c = LEFT_PARENTHESIS THEN
    IF Failed(P1) THEN ThrownVal(P1, P1.err)
    ELSE IF Failed(P2) THEN ThrownVal(P2, P2.err)
    ELSE IF Failed(next.p) THEN ThrownVal(next.p, next.p.err)
    ELSE IF next.c = OCTOTHORPE
      THEN ThrownVal(next.p, "outside the model: mixed content model")
    ELSE IF Failed(ecm.p) THEN ecm
    ELSE IF Failed(ended.p) THEN ended
    ELSE Val(ended.p, [dtd EXCEPT !.element_declarations = Put(@, name, [ElementDeclaration(name, "children") EXCEPT !.element_content = ecm.v])])
  ELSE IF Failed(element_type.p) THEN element_type
  ELSE IF element_type.v \notin { Run("Txt", <<"E", "M", "P", "T", "Y">>),
    Run("Txt", <<"A", "N", "Y">>) }
    THEN ThrownVal(element_type.p, "Expected 'EMPTY' or 'ANY'")
  ELSE IF Failed(closing.p) THEN closing
  ELSE Val(closing.p, [dtd EXCEPT !.element_declarations = Put(@, name, ElementDeclaration(name, type))])

\* Parser::parse_element_declaration.
parse_element_declaration(P, dtd) ==
  LET pes == dtd.parameter_entities
      P1 == Run("ignore_whitespace_parameter", <<P, pes>>)
      name == Run("parse_name", <<P1, WHITESPACE, TRUE, Table(pes), {}>>)
      refused == element_redeclaration_refused(dtd, name.v)
      P2 == Run("ignore_whitespace_parameter", <<name.p, pes>>)
  IN
  IF Failed(P1) THEN ThrownVal(P1, P1.err)
  ELSE IF Failed(name.p) THEN name
  ELSE IF refused # "" THEN ThrownVal(name.p, refused)
  ELSE IF Failed(P2) THEN ThrownVal(P2, P2.err)
  ELSE Run("parse_element_declaration_type", <<P2, dtd, name.v>>)

\* A notation declaration (utils.h).
NotationDeclaration(name, has_system_id, has_public_id, system_id, public_id) ==
  [ name |-> name, has_system_id |-> has_system_id,
    has_public_id |-> has_public_id, system_id |-> system_id,
    public_id |-> public_id ]

\* The end of Parser::parse_notation_declaration: '>' and the declaration
\* stored.
parse_notation_declaration_close(P, dtd, nd) ==
  LET closing == Run("close_declaration", <<P, dtd, "Expected '>'">>) IN
  IF Failed(P) THEN ThrownVal(P, P.err)
  ELSE IF Failed(closing.p) THEN closing
  ELSE Val(closing.p, [dtd EXCEPT !.notation_declarations = Put(@, nd.name, nd)])

\* Parser::parse_notation_declaration, type PUBLIC, past the public
\* identifier: the optional system identifier.
parse_notation_declaration_public(P, dtd, name, public_id) ==
  LET pes == dtd.parameter_entities
      first == Run("Parser_get_parameter", <<P, pes, TRUE, FALSE, FALSE>>)
      whitespace_seen == is_whitespace(first.c)
      P1 == Run("ignore_whitespace_parameter", <<P, pes>>)
      next == Run("Parser_get_parameter", <<P1, pes, TRUE, FALSE, FALSE>>)
      system_id == Run("parse_system_id", <<next.p>>)
  IN
  IF Failed(first.p) THEN ThrownVal(first.p, first.p.err)
  ELSE IF Failed(P1) THEN ThrownVal(P1, P1.err)
  ELSE IF Failed(next.p) THEN ThrownVal(next.p, next.p.err)
  ELSE IF next.c = RIGHT_ANGLE_BRACKET
    THEN Run("parse_notation_declaration_close", <<next.p, dtd, NotationDeclaration(name, FALSE, TRUE, <<>>, public_id)>>)
  ELSE IF ~whitespace_seen THEN ThrownVal(next.p, "Expected whitespace")
  ELSE IF Failed(system_id.p) THEN system_id
  ELSE Run("parse_notation_declaration_close", <<system_id.p, dtd, NotationDeclaration(name, TRUE, TRUE, system_id.v, public_id)>>)

\* Parser::parse_notation_declaration past the name: the identifiers.
parse_notation_declaration_id(P, dtd, name) ==
  LET pes == dtd.parameter_entities
      type == Run("parse_name", <<P, WHITESPACE, TRUE, Table(pes), {}>>)
      P1 == Run("ignore_whitespace_parameter", <<type.p, pes>>)
      id == Run("parse_public_or_system_id", <<P1, type.v = Run("Txt",
        <<"P", "U", "B", "L", "I", "C">>)>>)
  IN
  IF Failed(type.p) THEN type
  ELSE IF Failed(P1) THEN ThrownVal(P1, P1.err)
  ELSE IF type.v \notin { Run("Txt", <<"S", "Y", "S", "T", "E", "M">>),
    Run("Txt", <<"P", "U", "B", "L", "I", "C">>) }
    THEN ThrownVal(P1, "Expected 'SYSTEM' or 'PUBLIC'")
  ELSE IF Failed(id.p) THEN id
  ELSE IF type.v = Run("Txt", <<"S", "Y", "S", "T", "E", "M">>)
    THEN Run("parse_notation_declaration_close", <<id.p, dtd, NotationDeclaration(name, TRUE, FALSE, id.v, <<>>)>>)
  ELSE Run("parse_notation_declaration_public", <<id.p, dtd, name, id.v>>)

\* The check parse_notation_declaration makes of the name: the message of
\* the exception, "" when there is none.
notation_redeclaration_refused(dtd, name) ==
  IF name \in DOMAIN dtd.notation_declarations
    THEN "Duplicate notation name" ELSE ""

\* Parser::parse_notation_declaration.
parse_notation_declaration(P, dtd) ==
  LET pes == dtd.parameter_entities
      P1 == Run("ignore_whitespace_parameter", <<P, pes>>)
      name == Run("parse_name", <<P1, WHITESPACE, TRUE, Table(pes), {}>>)
      refused == notation_redeclaration_refused(dtd, name.v)
      P2 == Run("ignore_whitespace_parameter", <<name.p, pes>>)
  IN
  IF Failed(P1) THEN ThrownVal(P1, P1.err)
  ELSE IF Failed(name.p) THEN name
  ELSE IF refused # "" THEN ThrownVal(name.p, refused)
  ELSE IF Failed(P2) THEN ThrownVal(P2, P2.err)
  ELSE Run("parse_notation_declaration_id", <<P2, dtd, name.v>>)

\* Parser::parse_markup_declaration.
parse_markup_declaration(P, dtd) ==
  LET type == Run("parse_name", <<P, WHITESPACE, FALSE, Table(dtd.parameter_entities), {}>>)
  IN
  IF Failed(type.p) THEN type
  ELSE IF type.v = Run("Txt", <<"E", "L", "E", "M", "E", "N", "T">>)
    THEN Run("parse_element_declaration", <<type.p, dtd>>)
  ELSE IF type.v = Run("Txt", <<"A", "T", "T", "L", "I", "S", "T">>)
    THEN Run("parse_attribute_list_declaration", <<type.p, dtd>>)
  ELSE IF type.v = Run("Txt", <<"E", "N", "T", "I", "T", "Y">>)
    THEN Run("parse_entity_declaration", <<type.p, dtd>>)
  ELSE IF type.v = Run("Txt", <<"N", "O", "T", "A", "T", "I", "O", "N">>)
    THEN Run("parse_notation_declaration", <<type.p, dtd>>)
  ELSE ThrownVal(type.p, "Unknown markup declaration type")

\* Parser::start_external_subset(system_id).
start_external_subset(P, system_id) ==
  LET made == Run("ExternalStream", <<P.files, system_id, <<>>, <<<<>>>>>>)
      parameter_entity == [made.s EXCEPT !.is_parameter = TRUE,
                                         !.in_entity_value = FALSE]
  IN IF made.err # "" THEN Fail(P, made.err)
     ELSE [P EXCEPT !.external_dtd_content_active = TRUE,
                    !.parameter_entity_stack = Append(@, parameter_entity),
                    !.parameter_entity_active = TRUE]

\* What follows "<!" in a subset when it is not a comment: a conditional
\* section (outside this model) or a markup declaration.
parse_subset_declaration(P, dtd, external_subset_started, in_include) ==
  LET got == Run("Parser_get", <<P>>) IN
  IF Failed(got.p) THEN ThrownVal(got.p, got.p.err)
  ELSE IF got.c = LEFT_SQUARE_BRACKET THEN
    IF ~external_subset_started /\ ~in_include
      THEN ThrownVal(got.p, "Suggests start of conditional section, disallowed in the internal DTD")
      ELSE ThrownVal(got.p, "outside the model: conditional section")
  ELSE Run("parse_markup_declaration", <<got.p, dtd>>)

\* "<!" was read in a subset: a comment or a declaration.
parse_subset_markup(P, dtd, external_subset_started, in_include) ==
  LET P1 == Run("Parser_inc", <<P>>)
      got == Run("Parser_get", <<P1>>)
      P2 == Run("Parser_inc", <<got.p>>)
      second == Run("Parser_get", <<P2>>)
      P3 == Run("Parser_inc", <<second.p>>)
      P4 == Run("parse_comment", <<P3>>)
  IN
  IF Failed(P1) THEN ThrownVal(P1, P1.err)
  ELSE IF Failed(got.p) THEN ThrownVal(got.p, got.p.err)
  ELSE IF got.c = HYPHEN THEN
    IF Failed(P2) THEN ThrownVal(P2, P2.err)
    ELSE IF Failed(second.p) THEN ThrownVal(second.p, second.p.err)
    ELSE IF second.c # HYPHEN THEN ThrownVal(second.p, "Unexpected character")
    ELSE IF Failed(P3) THEN ThrownVal(P3, P3.err)
    ELSE IF Failed(P4) THEN ThrownVal(P4, P4.err)
    ELSE Val(P4, dtd)
  ELSE Run("parse_subset_declaration", <<got.p, dtd, external_subset_started, in_include>>)

\* The loop of parse_dtd_subsets.
parse_dtd_subsets_loop(P, dtd, external_subset_started, in_include, initial_parameter_entity_stack_size) ==
  LET ended == parameter_entity_eof(P)
      P0 == IF ended THEN end_parameter_entity(P) ELSE P
      got == Run("Parser_get_parameter", <<P0, dtd.parameter_entities, FALSE, FALSE, FALSE>>)
      P1 == Run("Parser_inc", <<got.p>>)
      size == Len(P1.parameter_entity_stack)
      started == Run("start_external_subset", <<P1, dtd.external_id.system_id>>)
      opened == Run("Parser_get", <<P1>>)
      P2 == Run("Parser_inc", <<opened.p>>)
      pi == Run("parse_processing_instruction", <<P2, FALSE>>)
      markup == Run("parse_subset_markup", <<opened.p, dtd, external_subset_started, in_include>>)
  IN
  IF ended /\ external_subset_started THEN Val(P0, dtd)
  ELSE IF Len(P0.parameter_entity_stack) < initial_parameter_entity_stack_size
    THEN ThrownVal(P0, "DTD subset must be in the same parameter entity text")
  ELSE IF Failed(got.p) THEN ThrownVal(got.p, got.p.err)
  ELSE IF Failed(P1) THEN ThrownVal(P1, P1.err)
  ELSE IF got.c = RIGHT_SQUARE_BRACKET THEN
    IF size # initial_parameter_entity_stack_size
      THEN ThrownVal(P1, "DTD subset must be in the same parameter entity text")
    ELSE IF /\ ~external_subset_started /\ dtd.external_id.type # "none"
            /\ ~in_include THEN
      IF Failed(started) THEN ThrownVal(started, started.err)
      ELSE Run("parse_dtd_subsets_loop", <<started, dtd, TRUE, in_include, size>>)
    ELSE Val(P1, dtd)
  ELSE IF is_whitespace(got.c)
    THEN Run("parse_dtd_subsets_loop", <<P1, dtd, external_subset_started, in_include, initial_parameter_entity_stack_size>>)
  ELSE IF got.c # LEFT_ANGLE_BRACKET THEN ThrownVal(P1, "Unexpected character")
  ELSE IF Failed(opened.p) THEN ThrownVal(opened.p, opened.p.err)
  ELSE IF opened.c = QUESTION_MARK THEN
    IF Failed(P2) THEN ThrownVal(P2, P2.err)
    ELSE IF Failed(pi.p) THEN pi
    ELSE Run("parse_dtd_subsets_loop", <<pi.p, dtd, external_subset_started, in_include, initial_parameter_entity_stack_size>>)
  ELSE IF opened.c # EXCLAMATION_MARK
    THEN ThrownVal(opened.p, "Unexpected character")
  ELSE IF Failed(markup.p) THEN markup
  ELSE IF Len(markup.p.parameter_entity_stack) # size
    THEN ThrownVal(markup.p, "Entire markup declaration must be in same parameter entity text")
  ELSE Run("parse_dtd_subsets_loop", <<markup.p, markup.v, external_subset_started, in_include, initial_parameter_entity_stack_size>>)

\* Parser::parse_dtd_subsets(dtd, external_subset_started, in_include).
parse_dtd_subsets(P, dtd, external_subset_started, in_include) ==
  LET started == IF external_subset_started
                   THEN Run("start_external_subset", <<P, dtd.external_id.system_id>>)
                   ELSE P
  IN IF Failed(started) THEN ThrownVal(started, started.err)
     ELSE Run("parse_dtd_subsets_loop", <<started, dtd, external_subset_started, in_include, Len(P.parameter_entity_stack)>>)

DOCTYPE_DECLARATION_ROOT_NAME_TERMINATORS ==
  WHITESPACE \o <<LEFT_SQUARE_BRACKET, RIGHT_ANGLE_BRACKET>>

parse_doctype_declaration_loop(P, dtd, can_parse_external_id, can_parse_internal_subset) ==
  LET got == Run("Parser_get", <<P>>)
      P1 == Run("Parser_inc", <<got.p>>)
      subsets == Run("parse_dtd_subsets", <<P1, dtd, FALSE, FALSE>>)
      external_id == Run("parse_external_id", <<got.p, NullTable>>)
      external_subset == Run("parse_dtd_subsets", <<P1, dtd, TRUE, FALSE>>)
  IN
  IF Failed(got.p) THEN ThrownVal(got.p, got.p.err)
  ELSE IF got.c = RIGHT_ANGLE_BRACKET THEN
    IF Failed(P1) THEN ThrownVal(P1, P1.err)
    ELSE IF can_parse_internal_subset /\ dtd.external_id.type # "none"
      THEN external_subset
    ELSE Val(P1, dtd)
  ELSE IF is_whitespace(got.c) THEN
    IF Failed(P1) THEN ThrownVal(P1, P1.err)
    ELSE Run("parse_doctype_declaration_loop", <<P1, dtd, can_parse_external_id, can_parse_internal_subset>>)
  ELSE IF got.c = LEFT_SQUARE_BRACKET /\ can_parse_internal_subset THEN
    IF Failed(P1) THEN ThrownVal(P1, P1.err)
    ELSE IF Failed(subsets.p) THEN subsets
    ELSE Run("parse_doctype_declaration_loop", <<subsets.p, subsets.v, FALSE, FALSE>>)
  ELSE IF ~can_parse_external_id THEN ThrownVal(got.p, "Unexpected character")
  ELSE IF Failed(external_id.p) THEN external_id
  ELSE Run("parse_doctype_declaration_loop", <<external_id.p, [dtd EXCEPT !.external_id = external_id.v], FALSE, can_parse_internal_subset>>)

\* Parser::parse_doctype_declaration: [p, v], v the DTD.
parse_doctype_declaration(P) ==
  LET P1 == Run("ignore_whitespace", <<P>>)
      root_name == Run("parse_name", <<P1, DOCTYPE_DECLARATION_ROOT_NAME_TERMINATORS, TRUE, NullTable, {}>>)
      parsed == Run("parse_doctype_declaration_loop", <<root_name.p, [DoctypeDeclaration EXCEPT !.exists = TRUE,
                                             !.root_name = root_name.v], TRUE, TRUE>>)
      invalid == Run("validate_attribute_list_declarations", <<parsed.v>>)
  IN
  IF Failed(P1) THEN ThrownVal(P1, P1.err)
  ELSE IF Failed(root_name.p) THEN root_name
  ELSE IF Failed(parsed.p) THEN parsed
  ELSE IF invalid # "" THEN ThrownVal(parsed.p, invalid)
  ELSE parsed


(***************************************************************************)
(* The XML declaration and the document (parser.cpp, utils.h).             *)
(***************************************************************************)
XML_DECLARATION_VERSION_NAME == Run("Txt", <<"v", "e", "r", "s", "i", "o",
  "n">>)
XML_DECLARATION_ENCODING_NAME ==
  Run("Txt", <<"e", "n", "c", "o", "d", "i", "n", "g">>)
XML_DECLARATION_STANDALONE_NAME ==
  Run("Txt", <<"s", "t", "a", "n", "d", "a", "l", "o", "n", "e">>)
SUPPORTED_ENCODINGS == {Run("Txt", <<"u", "t", "f", "MINUS", "D8">>)}
STANDALONE_VALUES ==
  (Run("Txt", <<"y", "e", "s">>) :> TRUE) @@ (Run("Txt", <<"n", "o">>) :>
    FALSE)

valid_version(version) ==
  /\ Len(version) > 2
  /\ version[1] = Run("Txt", <<"D1">>)[1]
  /\ version[2] = Run("Txt", <<"DOT">>)[1]
  /\ \A ii \in 3..Len(version) : isdigit(version[ii])

valid_encoding(encoding) == encoding \in SUPPORTED_ENCODINGS

\* struct Element.
Element(tag) ==
  [ text |-> <<>>, tag |-> tag, children |-> <<>>, is_empty |-> TRUE,
    children_only |-> TRUE ]

NoTag == Tag(<<>>, "start", EmptyMap)

\* struct Document.
Document ==
  [ version |-> Run("Txt", <<"D1", "DOT", "D0">>),
    encoding |-> Run("Txt", <<"u", "t", "f", "MINUS", "D8">>),
    standalone |-> FALSE,
    doctype_declaration |-> DoctypeDeclaration,
    root |-> Element(NoTag) ]

\* One attribute of the XML declaration, applied to the document; possible
\* is the triple of flags <<version, encoding, standalone>> still allowed.
\* The result is [p, v, possible, version_info_parsed].
parse_xml_declaration_attribute(P, doc, possible) ==
  LET attribute == Run("parse_attribute", <<P, doc.doctype_declaration, FALSE, TRUE, NullName>>)
      name == attribute.v[1]
      value == attribute.v[2]
      encoding == [ii \in 1..Len(value) |-> ToLower(value[ii])]
      Bad(message) == [ p |-> Fail(attribute.p, message), v |-> doc,
                        possible |-> possible, version_info_parsed |-> FALSE ]
  IN
  IF Failed(attribute.p) THEN Bad(attribute.p.err)
  ELSE IF name = XML_DECLARATION_VERSION_NAME THEN
    IF ~possible[1] THEN Bad("Document version cannot be specified here")
    ELSE IF ~valid_version(value) THEN Bad("Invalid document version")
    ELSE [ p |-> attribute.p, v |-> [doc EXCEPT !.version = value],
           possible |-> <<FALSE, possible[2], possible[3]>>,
           version_info_parsed |-> TRUE ]
  ELSE IF name = XML_DECLARATION_ENCODING_NAME THEN
    IF ~possible[2] THEN Bad("Document encoding cannot be specified here")
    ELSE IF ~valid_encoding(encoding) THEN Bad("Unsupported document encoding")
    ELSE [ p |-> attribute.p, v |-> [doc EXCEPT !.encoding = encoding],
           possible |-> <<FALSE, FALSE, possible[3]>>,
           version_info_parsed |-> FALSE ]
  ELSE IF name = XML_DECLARATION_STANDALONE_NAME THEN
    IF ~possible[3]
      THEN Bad("Standalone declaration cannot be specified here")
    ELSE IF value \notin DOMAIN STANDALONE_VALUES
      THEN Bad("Standalone declaration must be 'yes' or 'no'")
    ELSE [ p |-> attribute.p,
           v |-> [doc EXCEPT !.standalone = STANDALONE_VALUES[value]],
           possible |-> <<FALSE, FALSE, FALSE>>,
           version_info_parsed |-> FALSE ]
  ELSE Bad("Unkown XML declaration specifier")

parse_xml_declaration_loop(P, doc, version_info_parsed, possible, just_had_whitespace) ==
  LET got == Run("Parser_get", <<P>>)
      P1 == Run("Parser_inc", <<got.p>>)
      closing == Run("Parser_get", <<P1>>)
      P2 == Run("Parser_inc", <<closing.p>>)
      attribute == Run("parse_xml_declaration_attribute", <<got.p, doc, possible>>)
  IN
  IF Failed(got.p) THEN ThrownVal(got.p, got.p.err)
  ELSE IF is_whitespace(got.c) THEN
    IF Failed(P1) THEN ThrownVal(P1, P1.err)
    ELSE Run("parse_xml_declaration_loop", <<P1, doc, version_info_parsed, possible, TRUE>>)
  ELSE IF got.c = QUESTION_MARK THEN
    IF Failed(P1) THEN ThrownVal(P1, P1.err)
    ELSE IF Failed(closing.p) THEN ThrownVal(closing.p, closing.p.err)
    ELSE IF closing.c # RIGHT_ANGLE_BRACKET
      THEN ThrownVal(closing.p, "Expected '>'")
    ELSE IF Failed(P2) THEN ThrownVal(P2, P2.err)
    ELSE IF ~version_info_parsed
      THEN ThrownVal(P2, "Document version must be specified in XML declaration")
    ELSE Val(P2, doc)
  ELSE IF ~just_had_whitespace THEN ThrownVal(got.p, "Expected whitespace")
  ELSE IF Failed(attribute.p) THEN ThrownVal(attribute.p, attribute.p.err)
  ELSE Run("parse_xml_declaration_loop", <<attribute.p, attribute.v, version_info_parsed \/ attribute.version_info_parsed, attribute.possible, FALSE>>)

\* Parser::parse_xml_declaration(doc): [p, v], v the document.
parse_xml_declaration(P, doc) ==
  Run("parse_xml_declaration_loop", <<P, doc, FALSE, <<TRUE, TRUE, TRUE>>, FALSE>>)


(***************************************************************************)
(* The documents the parser is run on.  A document is an optional XML      *)
(* declaration, a prolog, an optional root element and a trailer; every    *)
(* part is drawn from a small table of texts.                              *)
(***************************************************************************)
\* The external files: system identifier |-> bytes.  File f declares a
\* default value for attribute k of element r.
Files ==
  Run("Txt", <<"f">>) :> Run("Txt", <<"LT", "BANG", "A", "T", "T", "L", "I",
    "S", "T", "SP", "r", "SP", "k", "SP", "C", "D", "A", "T", "A", "SP", "DQ",
    "v", "DQ", "GT", "SP">>)

Declarations ==
  [ none |-> <<>>,
    standalone |-> Run("Txt", <<"LT", "QM", "x", "m", "l", "SP", "v", "e",
      "r", "s", "i", "o", "n", "EQ", "SQ", "D1", "DOT", "D0", "SQ", "SP", "s",
      "t", "a", "n", "d", "a", "l", "o", "n", "e", "EQ", "SQ", "y", "e", "s",
      "SQ", "QM", "GT">>) ]

\* The general entities of the prologs that declare some, as
\* <<name, literal>> pairs in declaration order.
EntityTables ==
  [ self |-> << <<Run("Txt", <<"a">>), Run("Txt", <<"AMP", "a", "SEMI">>)>> >>,
    cycle |-> << <<Run("Txt", <<"a">>), Run("Txt", <<"AMP", "b",
      "SEMI">>)>>, <<Run("Txt", <<"b">>), Run("Txt", <<"AMP", "c",
      "SEMI">>)>>,
                 <<Run("Txt", <<"c">>), Run("Txt", <<"AMP", "b", "SEMI">>)>>
                   >>,
    nested |-> << <<Run("Txt", <<"e">>), <<>> >>, <<Run("Txt", <<"a">>),
      Run("Txt", <<"x", "AMP", "e", "SEMI">>)>>,
                  <<Run("Txt", <<"b">>), Run("Txt", <<"y", "AMP", "HASH",
                    "D6", "D5", "SEMI">>)>>, <<Run("Txt", <<"c">>), Run("Txt",
                    <<"AMP", "b", "SEMI", "z">>)>> >>,
    crossing |-> << <<Run("Txt", <<"a">>), Run("Txt", <<"LT", "x",
      "GT">>)>>, <<Run("Txt", <<"p">>), Run("Txt", <<"AMP", "a", "SEMI", "LT",
      "SLASH", "x", "GT">>)>>,
                    <<Run("Txt", <<"q">>), Run("Txt", <<"LT", "x", "GT",
                      "y", "LT", "SLASH", "x", "GT">>)>>, <<Run("Txt",
                      <<"b">>), Run("Txt", <<"LT", "SLASH", "x", "GT">>)>> >>,
    values |-> << <<Run("Txt", <<"t">>), Run("Txt", <<"x", "y">>)>>,
      <<Run("Txt", <<"a">>), Run("Txt", <<"x", "SQ", "y">>)>>,
                  <<Run("Txt", <<"n">>), <<>> >>, <<Run("Txt", <<"b">>),
                    Run("Txt", <<"AMP", "a", "SEMI", "p">>)>> >>,
    tags |-> << <<Run("Txt", <<"a">>), Run("Txt", <<"SQ", "y">>)>>,
      <<Run("Txt", <<"e">>), Run("Txt", <<"LT", "x", "SP", "k", "EQ", "SQ",
      "AMP", "a", "SEMI", "D2", "SQ", "SLASH", "GT">>)>> >>,
    empty_tags |-> << <<Run("Txt", <<"n">>), <<>> >>, <<Run("Txt", <<"g">>),
      Run("Txt", <<"LT", "x", "SP", "k", "EQ", "SQ", "D1", "AMP", "n", "SEMI",
      "D2", "SQ", "SLASH", "GT">>)>> >>,
    plain_tags |-> << <<Run("Txt", <<"t">>), Run("Txt", <<"x", "y">>)>>,
      <<Run("Txt", <<"f">>), Run("Txt", <<"LT", "x", "SP", "k", "EQ", "SQ",
      "v", "SQ", "SLASH", "GT">>)>>,
                      <<Run("Txt", <<"h">>), Run("Txt", <<"LT", "x", "SP",
                        "k", "EQ", "SQ", "AMP", "t", "SEMI", "SQ", "SLASH",
                        "GT", "z">>)>> >> ]

RECURSIVE EntityDeclarations(_)
\* The declarations <!ENTITY name "literal"> of a table.
EntityDeclarations(table) ==
  IF table = <<>> THEN <<>>
  ELSE Cat(<< Run("Txt", <<"LT", "BANG", "E", "N", "T", "I", "T", "Y",
    "SP">>), Head(table)[1], Run("Txt", <<"SP", "DQ">>), Head(table)[2],
              Run("Txt", <<"DQ", "GT">>) >>) \o EntityDeclarations(Tail(table))

OtherPrologs ==
  [ none |-> <<>>,
    space |-> Run("Txt", <<"SP">>),
    cr |-> Run("Txt", <<"CR">>),
    comment |-> Run("Txt", <<"LT", "BANG", "MINUS", "MINUS", "c", "MINUS",
      "MINUS", "GT">>),
    pi |-> Run("Txt", <<"LT", "QM", "p", "SP", "i", "QM", "GT">>),
    doctype |-> Run("Txt", <<"LT", "BANG", "D", "O", "C", "T", "Y", "P",
      "E", "SP", "r", "GT">>),
    doctypes |-> Run("Txt", <<"LT", "BANG", "D", "O", "C", "T", "Y", "P",
      "E", "SP", "r", "GT", "LT", "BANG", "D", "O", "C", "T", "Y", "P", "E",
      "SP", "r", "GT">>),
    internal_attlist |-> Run("Txt", <<"LT", "BANG", "D", "O", "C", "T", "Y",
      "P", "E", "SP", "r", "SP", "LBRK", "LT", "BANG", "A", "T", "T", "L",
      "I", "S", "T", "SP", "r", "SP", "k", "SP", "C", "D", "A", "T", "A",
      "SP", "DQ", "v", "DQ", "GT", "RBRK", "GT">>),
    external_subset |-> Run("Txt", <<"LT", "BANG", "D", "O", "C", "T", "Y",
      "P", "E", "SP", "r", "SP", "S", "Y", "S", "T", "E", "M", "SP", "SQ",
      "f", "SQ", "GT">>),
    external_entity |->
      Run("Txt", <<"LT", "BANG", "D", "O", "C", "T", "Y", "P", "E", "SP",
        "r", "SP", "LBRK", "LT", "BANG", "E", "N", "T", "I", "T", "Y", "SP",
        "PCT", "SP", "e", "SP", "S", "Y", "S", "T", "E", "M", "SP", "SQ", "f",
        "SQ", "GT", "PCT", "e", "SEMI", "RBRK", "GT">>),
    external_in_internal |->
      Run("Txt", <<"LT", "BANG", "D", "O", "C", "T", "Y", "P", "E", "SP",
        "r", "SP", "LBRK", "LT", "BANG", "E", "N", "T", "I", "T", "Y", "SP",
        "PCT", "SP", "e", "SP", "S", "Y", "S", "T", "E", "M", "SP", "SQ", "f",
        "SQ", "GT", "LT", "BANG", "E", "N", "T", "I", "T", "Y", "SP", "PCT",
        "SP", "i", "SP", "SQ", "AMP", "HASH", "D3", "D7", "SEMI", "e", "SEMI",
        "SQ", "GT", "PCT", "i", "SEMI", "RBRK", "GT">>),
    declaration |-> Run("Txt", <<"LT", "QM", "x", "m", "l", "SP", "v", "e",
      "r", "s", "i", "o", "n", "EQ", "SQ", "D1", "DOT", "D0", "SQ", "QM",
      "GT">>),
    space_declaration |-> Run("Txt", <<"SP", "LT", "QM", "x", "m", "l",
      "SP", "v", "e", "r", "s", "i", "o", "n", "EQ", "SQ", "D1", "DOT", "D0",
      "SQ", "QM", "GT">>),
    comment_declaration |-> Run("Txt", <<"LT", "BANG", "MINUS", "MINUS",
      "c", "MINUS", "MINUS", "GT", "LT", "QM", "x", "m", "l", "SP", "v", "e",
      "r", "s", "i", "o", "n", "EQ", "SQ", "D1", "DOT", "D0", "SQ", "QM",
      "GT">>),
    pi_declaration |-> Run("Txt", <<"LT", "QM", "p", "SP", "i", "QM", "GT",
      "LT", "QM", "x", "m", "l", "SP", "v", "e", "r", "s", "i", "o", "n",
      "EQ", "SQ", "D1", "DOT", "D0", "SQ", "QM", "GT">>),
    declaration_after_doctype |-> Run("Txt", <<"LT", "BANG", "D", "O", "C",
      "T", "Y", "P", "E", "SP", "r", "GT", "LT", "QM", "x", "m", "l", "SP",
      "v", "e", "r", "s", "i", "o", "n", "EQ", "SQ", "D1", "DOT", "D0", "SQ",
      "QM", "GT">>),
    declaration_in_doctype |-> Run("Txt", <<"LT", "BANG", "D", "O", "C",
      "T", "Y", "P", "E", "SP", "r", "SP", "LBRK", "LT", "QM", "x", "m", "l",
      "SP", "v", "e", "r", "s", "i", "o", "n", "EQ", "SQ", "D1", "DOT", "D0",
      "SQ", "QM", "GT", "RBRK", "GT">>),
    other_root |-> Run("Txt", <<"LT", "BANG", "D", "O", "C", "T", "Y", "P",
      "E", "SP", "s", "GT">>),
    elements |-> Run("Txt", <<"LT", "BANG", "D", "O", "C", "T", "Y", "P",
      "E", "SP", "r", "SP", "LBRK", "LT", "BANG", "E", "L", "E", "M", "E",
      "N", "T", "SP", "r", "SP", "A", "N", "Y", "GT", "LT", "BANG", "E", "L",
      "E", "M", "E", "N", "T", "SP", "x", "SP", "E", "M", "P", "T", "Y", "GT",
      "RBRK", "GT">>),
    ids |->
      Run("Txt", <<"LT", "BANG", "D", "O", "C", "T", "Y", "P", "E", "SP",
        "r", "SP", "LBRK", "LT", "BANG", "A", "T", "T", "L", "I", "S", "T",
        "SP", "r", "SP", "i", "SP", "I", "D", "SP", "HASH", "I", "M", "P",
        "L", "I", "E", "D", "SP", "f", "SP", "I", "D", "R", "E", "F", "SP",
        "HASH", "I", "M", "P", "L", "I", "E", "D", "GT", "LT", "BANG", "A",
        "T", "T", "L", "I", "S", "T", "SP", "x", "SP", "j", "SP", "I", "D",
        "SP", "HASH", "I", "M", "P", "L", "I", "E", "D", "SP", "s", "SP", "I",
        "D", "R", "E", "F", "S", "SP", "HASH", "I", "M", "P", "L", "I", "E",
        "D", "GT", "RBRK", "GT">>),
    presence |->
      Run("Txt", <<"LT", "BANG", "D", "O", "C", "T", "Y", "P", "E", "SP",
        "r", "SP", "LBRK", "LT", "BANG", "A", "T", "T", "L", "I", "S", "T",
        "SP", "r", "SP", "q", "SP", "C", "D", "A", "T", "A", "SP", "HASH",
        "R", "E", "Q", "U", "I", "R", "E", "D", "SP", "k", "SP", "C", "D",
        "A", "T", "A", "SP", "HASH", "F", "I", "X", "E", "D", "SP", "DQ", "v",
        "DQ", "SP", "o", "SP", "C", "D", "A", "T", "A", "SP", "HASH", "I",
        "M", "P", "L", "I", "E", "D", "GT", "RBRK", "GT">>),
    cdata |-> Run("Txt", <<"LT", "BANG", "D", "O", "C", "T", "Y", "P", "E",
      "SP", "r", "SP", "LBRK", "LT", "BANG", "A", "T", "T", "L", "I", "S",
      "T", "SP", "r", "SP", "k", "SP", "C", "D", "A", "T", "A", "SP", "HASH",
      "I", "M", "P", "L", "I", "E", "D", "GT", "RBRK", "GT">>),
    other_cdata |-> Run("Txt", <<"LT", "BANG", "D", "O", "C", "T", "Y", "P",
      "E", "SP", "r", "SP", "LBRK", "LT", "BANG", "A", "T", "T", "L", "I",
      "S", "T", "SP", "r", "SP", "j", "SP", "C", "D", "A", "T", "A", "SP",
      "HASH", "I", "M", "P", "L", "I", "E", "D", "GT", "RBRK", "GT">>),
    other_element |-> Run("Txt", <<"LT", "BANG", "D", "O", "C", "T", "Y",
      "P", "E", "SP", "r", "SP", "LBRK", "LT", "BANG", "A", "T", "T", "L",
      "I", "S", "T", "SP", "x", "SP", "k", "SP", "N", "M", "T", "O", "K", "E",
      "N", "S", "SP", "HASH", "I", "M", "P", "L", "I", "E", "D", "GT", "RBRK",
      "GT">>),
    tokens |-> Run("Txt", <<"LT", "BANG", "D", "O", "C", "T", "Y", "P", "E",
      "SP", "r", "SP", "LBRK", "LT", "BANG", "A", "T", "T", "L", "I", "S",
      "T", "SP", "r", "SP", "k", "SP", "N", "M", "T", "O", "K", "E", "N", "S",
      "SP", "HASH", "I", "M", "P", "L", "I", "E", "D", "GT", "RBRK", "GT">>),
    cdata_default |-> Run("Txt", <<"LT", "BANG", "D", "O", "C", "T", "Y",
      "P", "E", "SP", "r", "SP", "LBRK", "LT", "BANG", "A", "T", "T", "L",
      "I", "S", "T", "SP", "r", "SP", "k", "SP", "C", "D", "A", "T", "A",
      "SP", "SQ", "SP", "a", "SP", "TAB", "b", "SP", "SQ", "GT", "RBRK",
      "GT">>),
    tokens_default |-> Run("Txt", <<"LT", "BANG", "D", "O", "C", "T", "Y",
      "P", "E", "SP", "r", "SP", "LBRK", "LT", "BANG", "A", "T", "T", "L",
      "I", "S", "T", "SP", "r", "SP", "k", "SP", "N", "M", "T", "O", "K", "E",
      "N", "S", "SP", "SQ", "SP", "a", "SP", "TAB", "b", "SP", "SQ", "GT",
      "RBRK", "GT">>),
    children_model |-> Run("Txt", <<"LT", "BANG", "D", "O", "C", "T", "Y",
      "P", "E", "SP", "r", "SP", "LBRK", "LT", "BANG", "E", "L", "E", "M",
      "E", "N", "T", "SP", "r", "SP", "LPAR", "x", "RPAR", "STAR", "GT", "LT",
      "BANG", "E", "L", "E", "M", "E", "N", "T", "SP", "x", "SP", "E", "M",
      "P", "T", "Y", "GT", "RBRK", "GT">>),
    tokens_last |-> Run("Txt", <<"LT", "BANG", "D", "O", "C", "T", "Y", "P",
      "E", "SP", "r", "SP", "LBRK", "LT", "BANG", "A", "T", "T", "L", "I",
      "S", "T", "SP", "r", "SP", "k", "SP", "N", "M", "T", "O", "K", "E", "N",
      "S", "SP", "SQ", "a", "SP", "BANG", "SQ", "GT", "RBRK", "GT">>),
    tokens_first |-> Run("Txt", <<"LT", "BANG", "D", "O", "C", "T", "Y",
      "P", "E", "SP", "r", "SP", "LBRK", "LT", "BANG", "A", "T", "T", "L",
      "I", "S", "T", "SP", "r", "SP", "k", "SP", "N", "M", "T", "O", "K", "E",
      "N", "S", "SP", "SQ", "BANG", "SP", "a", "SQ", "GT", "RBRK", "GT">>),
    names_last |-> Run("Txt", <<"LT", "BANG", "D", "O", "C", "T", "Y", "P",
      "E", "SP", "r", "SP", "LBRK", "LT", "BANG", "A", "T", "T", "L", "I",
      "S", "T", "SP", "r", "SP", "k", "SP", "I", "D", "R", "E", "F", "S",
      "SP", "SQ", "a", "SP", "BANG", "SQ", "SP", "i", "SP", "I", "D", "SP",
      "HASH", "I", "M", "P", "L", "I", "E", "D", "GT", "RBRK", "GT">>),
    names_first |-> Run("Txt", <<"LT", "BANG", "D", "O", "C", "T", "Y", "P",
      "E", "SP", "r", "SP", "LBRK", "LT", "BANG", "A", "T", "T", "L", "I",
      "S", "T", "SP", "r", "SP", "k", "SP", "I", "D", "R", "E", "F", "S",
      "SP", "SQ", "BANG", "SP", "a", "SQ", "SP", "i", "SP", "I", "D", "SP",
      "HASH", "I", "M", "P", "L", "I", "E", "D", "GT", "RBRK", "GT">>),
    entities_last |->
      Run("Txt", <<"LT", "BANG", "D", "O", "C", "T", "Y", "P", "E", "SP",
        "r", "SP", "LBRK", "LT", "BANG", "N", "O", "T", "A", "T", "I", "O",
        "N", "SP", "n", "SP", "S", "Y", "S", "T", "E", "M", "SP", "SQ", "s",
        "SQ", "GT", "LT", "BANG", "E", "N", "T", "I", "T", "Y", "SP", "e",
        "SP", "S", "Y", "S", "T", "E", "M", "SP", "SQ", "f", "SQ", "SP", "N",
        "D", "A", "T", "A", "SP", "n", "GT", "LT", "BANG", "A", "T", "T", "L",
        "I", "S", "T", "SP", "r", "SP", "k", "SP", "E", "N", "T", "I", "T",
        "I", "E", "S", "SP", "SQ", "e", "SP", "BANG", "SQ", "GT", "RBRK",
        "GT">>) ]

Prolog(id) ==
  IF id \in DOMAIN EntityTables
    THEN Cat(<< Run("Txt", <<"LT", "BANG", "D", "O", "C", "T", "Y", "P",
      "E", "SP", "r", "SP", "LBRK">>), EntityDeclarations(EntityTables[id]),
                Run("Txt", <<"RBRK", "GT">>) >>)
    ELSE OtherPrologs[id]

\* The number of DOCTYPE declarations of a prolog.
PrologDoctypes(id) ==
  IF id \in {"none", "space", "cr", "comment", "pi", "declaration",
            "space_declaration", "comment_declaration", "pi_declaration"}
    THEN 0
  ELSE IF id = "doctypes" THEN 2 ELSE 1

\* The content of the root elements <r>content</r> that are character data
\* with references.
Contents ==
  [ nothing |-> <<>>,
    text |-> Run("Txt", <<"t">>),
    builtins |-> Run("Txt", <<"AMP", "a", "m", "p", "SEMI", "AMP", "l", "t",
      "SEMI", "AMP", "g", "t", "SEMI", "AMP", "a", "p", "o", "s", "SEMI",
      "AMP", "q", "u", "o", "t", "SEMI">>),
    characters |-> Run("Txt", <<"AMP", "HASH", "D6", "D5", "SEMI", "AMP",
      "HASH", "x", "D4", "D2", "SEMI">>),
    mixed |-> Run("Txt", <<"X", "AMP", "a", "m", "p", "SEMI", "Y">>),
    a |-> Run("Txt", <<"AMP", "a", "SEMI">>),
    a_then_text |-> Run("Txt", <<"AMP", "a", "SEMI", "w">>),
    c |-> Run("Txt", <<"AMP", "c", "SEMI">>),
    text_then_b |-> Run("Txt", <<"w", "AMP", "b", "SEMI">>) ]

\* The content of the other root elements.
Markups ==
  [ children |-> Run("Txt", <<"LT", "x", "SLASH", "GT", "LT", "y", "GT",
    "t", "LT", "SLASH", "y", "GT">>),
    sections |-> Run("Txt", <<"LT", "BANG", "MINUS", "MINUS", "c", "MINUS",
      "MINUS", "GT", "LT", "QM", "p", "SP", "i", "QM", "GT", "LT", "BANG",
      "LBRK", "C", "D", "A", "T", "A", "LBRK", "d", "RBRK", "RBRK", "GT">>),
    greater |-> Run("Txt", <<"a", "GT", "b">>),
    line |-> Run("Txt", <<"x", "CR", "y">>),
    p |-> Run("Txt", <<"AMP", "p", "SEMI">>),
    q |-> Run("Txt", <<"AMP", "q", "SEMI">>),
    a_then_end |-> Run("Txt", <<"AMP", "a", "SEMI", "LT", "SLASH", "x",
      "GT">>),
    start_then_b |-> Run("Txt", <<"LT", "x", "GT", "AMP", "b", "SEMI">>),
    mismatch |-> Run("Txt", <<"LT", "x", "GT", "LT", "SLASH", "y", "GT">>),
    declaration |-> Run("Txt", <<"LT", "QM", "x", "m", "l", "SP", "v", "e",
      "r", "s", "i", "o", "n", "EQ", "SQ", "D1", "DOT", "D0", "SQ", "QM",
      "GT">>) ]

\* The root elements with identifiers and references to them.
IdentifiedElements ==
  [ forward |-> Run("Txt", <<"LT", "r", "SP", "i", "EQ", "SQ", "a", "SQ",
    "SP", "f", "EQ", "SQ", "b", "SQ", "GT", "LT", "x", "SP", "j", "EQ", "SQ",
    "b", "SQ", "SLASH", "GT", "LT", "SLASH", "r", "GT">>),
    own |-> Run("Txt", <<"LT", "r", "SP", "i", "EQ", "SQ", "a", "SQ", "SP",
      "f", "EQ", "SQ", "a", "SQ", "SLASH", "GT">>),
    repeated |-> Run("Txt", <<"LT", "r", "GT", "LT", "x", "SP", "j", "EQ",
      "SQ", "a", "SQ", "SLASH", "GT", "LT", "x", "SP", "j", "EQ", "SQ", "a",
      "SQ", "SLASH", "GT", "LT", "SLASH", "r", "GT">>),
    repeated_across |-> Run("Txt", <<"LT", "r", "SP", "i", "EQ", "SQ", "a",
      "SQ", "GT", "LT", "x", "SP", "j", "EQ", "SQ", "a", "SQ", "SLASH", "GT",
      "LT", "SLASH", "r", "GT">>),
    dangling |-> Run("Txt", <<"LT", "r", "SP", "f", "EQ", "SQ", "c", "SQ",
      "GT", "LT", "x", "SP", "j", "EQ", "SQ", "a", "SQ", "SLASH", "GT", "LT",
      "SLASH", "r", "GT">>),
    list |-> Run("Txt", <<"LT", "r", "SP", "i", "EQ", "SQ", "a", "SQ", "GT",
      "LT", "x", "SP", "j", "EQ", "SQ", "b", "SQ", "SP", "s", "EQ", "SQ", "b",
      "SP", "a", "SQ", "SLASH", "GT", "LT", "SLASH", "r", "GT">>),
    list_forward |-> Run("Txt", <<"LT", "r", "GT", "LT", "x", "SP", "s",
      "EQ", "SQ", "SP", "a", "SP", "SP", "b", "SP", "SQ", "SLASH", "GT", "LT",
      "x", "SP", "j", "EQ", "SQ", "a", "SQ", "SLASH", "GT", "LT", "x", "SP",
      "j", "EQ", "SQ", "b", "SQ", "SLASH", "GT", "LT", "SLASH", "r", "GT">>),
    list_first_dangling |-> Run("Txt", <<"LT", "r", "SP", "i", "EQ", "SQ",
      "a", "SQ", "GT", "LT", "x", "SP", "s", "EQ", "SQ", "c", "SP", "a", "SQ",
      "SLASH", "GT", "LT", "SLASH", "r", "GT">>),
    list_last_dangling |-> Run("Txt", <<"LT", "r", "SP", "i", "EQ", "SQ",
      "a", "SQ", "GT", "LT", "x", "SP", "s", "EQ", "SQ", "a", "SP", "c", "SQ",
      "SLASH", "GT", "LT", "SLASH", "r", "GT">>) ]

\* The root elements with required, fixed and undeclared attributes.
AttributedElements ==
  [ required |-> Run("Txt", <<"LT", "r", "SP", "q", "EQ", "SQ", "D1", "SQ",
    "SLASH", "GT">>),
    fixed |-> Run("Txt", <<"LT", "r", "SP", "q", "EQ", "SQ", "D1", "SQ",
      "SP", "k", "EQ", "SQ", "v", "SQ", "SLASH", "GT">>),
    fixed_other |-> Run("Txt", <<"LT", "r", "SP", "q", "EQ", "SQ", "D1",
      "SQ", "SP", "k", "EQ", "SQ", "w", "SQ", "SLASH", "GT">>),
    implied |-> Run("Txt", <<"LT", "r", "SP", "q", "EQ", "SQ", "D1", "SQ",
      "SP", "o", "EQ", "SQ", "D3", "SQ", "SLASH", "GT">>),
    undeclared |-> Run("Txt", <<"LT", "r", "SP", "q", "EQ", "SQ", "D1",
      "SQ", "SP", "u", "EQ", "SQ", "D2", "SQ", "SLASH", "GT">>),
    child |-> Run("Txt", <<"LT", "r", "SP", "q", "EQ", "SQ", "D1", "SQ",
      "GT", "LT", "x", "SLASH", "GT", "LT", "SLASH", "r", "GT">>),
    child_undeclared |-> Run("Txt", <<"LT", "r", "SP", "q", "EQ", "SQ",
      "D1", "SQ", "GT", "LT", "x", "SP", "u", "EQ", "SQ", "D2", "SQ", "SLASH",
      "GT", "LT", "SLASH", "r", "GT">>) ]

\* The root elements about the literals of attribute values: a start tag
\* with the attribute k in the document, or a reference to an entity whose
\* replacement text is such a tag.
QuotedElements ==
  [ quoted_text |-> Run("Txt", <<"LT", "r", "SP", "k", "EQ", "SQ", "v",
    "SQ", "SLASH", "GT">>),
    quoted_a |-> Run("Txt", <<"LT", "r", "SP", "k", "EQ", "SQ", "D1", "AMP",
      "a", "SEMI", "D2", "SQ", "SLASH", "GT">>),
    quoted_a_only |-> Run("Txt", <<"LT", "r", "SP", "k", "EQ", "SQ", "AMP",
      "a", "SEMI", "SQ", "SLASH", "GT">>),
    quoted_a_double |-> Run("Txt", <<"LT", "r", "SP", "k", "EQ", "DQ",
      "AMP", "a", "SEMI", "DQ", "SLASH", "GT">>),
    quoted_b |-> Run("Txt", <<"LT", "r", "SP", "k", "EQ", "SQ", "D1", "AMP",
      "b", "SEMI", "D2", "SQ", "SLASH", "GT">>),
    quoted_n |-> Run("Txt", <<"LT", "r", "SP", "k", "EQ", "SQ", "D1", "AMP",
      "n", "SEMI", "D2", "SQ", "SLASH", "GT">>),
    quoted_t |-> Run("Txt", <<"LT", "r", "SP", "k", "EQ", "SQ", "AMP", "t",
      "SEMI", "SQ", "SLASH", "GT">>),
    borne_e |-> Run("Txt", <<"LT", "r", "GT", "AMP", "e", "SEMI", "LT",
      "SLASH", "r", "GT">>),
    borne_f |-> Run("Txt", <<"LT", "r", "GT", "AMP", "f", "SEMI", "LT",
      "SLASH", "r", "GT">>),
    borne_g |-> Run("Txt", <<"LT", "r", "GT", "AMP", "g", "SEMI", "LT",
      "SLASH", "r", "GT">>),
    borne_h |-> Run("Txt", <<"LT", "r", "GT", "AMP", "h", "SEMI", "LT",
      "SLASH", "r", "GT">>) ]

\* The root elements with an attribute k of several tokens.
TokenElements ==
  [ token_good |-> Run("Txt", <<"LT", "r", "SP", "k", "EQ", "SQ", "a", "SP",
    "b", "SQ", "SLASH", "GT">>),
    token_last |-> Run("Txt", <<"LT", "r", "SP", "k", "EQ", "SQ", "a", "SP",
      "BANG", "SQ", "SLASH", "GT">>),
    token_first |-> Run("Txt", <<"LT", "r", "SP", "k", "EQ", "SQ", "BANG",
      "SP", "a", "SQ", "SLASH", "GT">>),
    token_only |-> Run("Txt", <<"LT", "r", "SP", "k", "EQ", "SQ", "BANG",
      "SQ", "SLASH", "GT">>),
    name_good |-> Run("Txt", <<"LT", "r", "SP", "i", "EQ", "SQ", "a", "SQ",
      "SP", "k", "EQ", "SQ", "a", "SQ", "SLASH", "GT">>),
    entity_good |-> Run("Txt", <<"LT", "r", "SP", "k", "EQ", "SQ", "e",
      "SQ", "SLASH", "GT">>) ]

\* The content of root elements as a sequence of pieces, each a kind of
\* content and its text.
FlagContents ==
  [ no_content |-> <<>>,
    comment_only |-> << <<"comment", Run("Txt", <<"LT", "BANG", "MINUS",
      "MINUS", "c", "MINUS", "MINUS", "GT">>)>> >>,
    space_only |-> << <<"space", Run("Txt", <<"SP", "LF">>)>> >>,
    instruction_only |-> << <<"instruction", Run("Txt", <<"LT", "QM", "p",
      "SP", "i", "QM", "GT">>)>> >>,
    section_only |-> << <<"section", Run("Txt", <<"LT", "BANG", "LBRK", "C",
      "D", "A", "T", "A", "LBRK", "RBRK", "RBRK", "GT">>)>> >>,
    reference_only |-> << <<"reference", Run("Txt", <<"AMP", "HASH", "D3",
      "D2", "SEMI">>)>> >>,
    text_only |-> << <<"text", Run("Txt", <<"t">>)>> >>,
    child_only |-> << <<"child", Run("Txt", <<"LT", "x", "SLASH", "GT">>)>> >>,
    child_comment_space |-> << <<"child", Run("Txt", <<"LT", "x", "SLASH",
      "GT">>)>>,
                               <<"comment", Run("Txt", <<"LT", "BANG",
                                 "MINUS", "MINUS", "c", "MINUS", "MINUS",
                                 "GT">>)>>,
                               <<"space", Run("Txt", <<"SP">>)>> >>,
    space_comment |-> << <<"space", Run("Txt", <<"SP">>)>>, <<"comment",
      Run("Txt", <<"LT", "BANG", "MINUS", "MINUS", "c", "MINUS", "MINUS",
      "GT">>)>> >> ]

\* The text of a sequence of pieces.
PiecesText(pieces) == Cat([ii \in 1..Len(pieces) |-> pieces[ii][2]])

Root(id) ==
  IF id = "none" THEN <<>>
  ELSE IF id \in DOMAIN FlagContents
    THEN Cat(<< Run("Txt", <<"LT", "r", "GT">>),
      PiecesText(FlagContents[id]), Run("Txt", <<"LT", "SLASH", "r", "GT">>)
      >>)
  ELSE IF id \in DOMAIN TokenElements THEN TokenElements[id]
  ELSE IF id = "empty" THEN Run("Txt", <<"LT", "r", "SLASH", "GT">>)
  ELSE IF id = "attribute" THEN Run("Txt", <<"LT", "r", "SP", "k", "EQ",
    "SQ", "w", "SQ", "SLASH", "GT">>)
  ELSE IF id = "spaced" THEN Run("Txt", <<"LT", "r", "SP", "k", "EQ", "SQ",
    "SP", "a", "SP", "TAB", "b", "SP", "SQ", "SLASH", "GT">>)
  ELSE IF id \in DOMAIN IdentifiedElements THEN IdentifiedElements[id]
  ELSE IF id \in DOMAIN AttributedElements THEN AttributedElements[id]
  ELSE IF id \in DOMAIN QuotedElements THEN QuotedElements[id]
  ELSE IF id \in DOMAIN Contents
    THEN Cat(<< Run("Txt", <<"LT", "r", "GT">>), Contents[id], Run("Txt",
      <<"LT", "SLASH", "r", "GT">>) >>)
  ELSE Cat(<< Run("Txt", <<"LT", "r", "GT">>), Markups[id], Run("Txt",
    <<"LT", "SLASH", "r", "GT">>) >>)

Trailers ==
  [ none |-> <<>>,
    space |-> Run("Txt", <<"SP">>),
    crlf |-> Run("Txt", <<"CR", "LF">>),
    comment |-> Run("Txt", <<"LT", "BANG", "MINUS", "MINUS", "c", "MINUS",
      "MINUS", "GT">>),
    element |-> Run("Txt", <<"LT", "r", "SLASH", "GT">>),
    doctype |-> Run("Txt", <<"LT", "BANG", "D", "O", "C", "T", "Y", "P",
      "E", "SP", "r", "GT">>),
    declaration |-> Run("Txt", <<"LT", "QM", "x", "m", "l", "SP", "v", "e",
      "r", "s", "i", "o", "n", "EQ", "SQ", "D1", "DOT", "D0", "SQ", "QM",
      "GT">>) ]

\* A document and the arguments of parse_document, which are false unless
\* said otherwise.
Scenario(declaration, prolog, root, trailer) ==
  [ declaration |-> declaration, prolog |-> prolog, root |-> root,
    trailer |-> trailer, validate_elements |-> FALSE,
    validate_attributes |-> FALSE ]

WithValidation(s, validate_elements, validate_attributes) ==
  [s EXCEPT !.validate_elements = validate_elements,
            !.validate_attributes = validate_attributes]

\* The bytes of a document.
Render(s) ==
  Cat(<< Declarations[s.declaration], Prolog(s.prolog), Root(s.root),
         Trailers[s.trailer] >>)

\* The parser constructed on the bytes of a document.
Input(s) == [NewParser(Render(s)) EXCEPT !.files = Files]

\* Documents about the top level: what may stand before and after the root.
TopLevelDocuments ==
  { Scenario("none", prolog, root, trailer) :
      prolog \in {"none", "space", "cr", "comment", "pi", "doctype",
                  "doctypes"},
      root \in {"none", "empty", "nothing"},
      trailer \in DOMAIN Trailers }

\* Documents about references in content.
EntityDocuments ==
  { Scenario("none", prolog, root, "none") :
      prolog \in {"self", "cycle", "nested", "crossing", "none"},
      root \in DOMAIN Contents \cup DOMAIN Markups }

\* Documents about attribute defaults.
DefaultDocuments ==
  { Scenario(declaration, prolog, root, "none") :
      declaration \in DOMAIN Declarations,
      prolog \in {"internal_attlist", "external_subset", "external_entity",
                  "external_in_internal"},
      root \in {"empty", "attribute"} }

\* Documents about the place of the XML declaration: at the start, after
\* something else, inside the DOCTYPE declaration, inside the root element
\* and after it.
DeclarationDocuments ==
  { Scenario(declaration, prolog, "empty", "none") :
      declaration \in DOMAIN Declarations,
      prolog \in {"declaration", "space_declaration", "comment_declaration",
                  "pi_declaration", "declaration_after_doctype",
                  "declaration_in_doctype"} }
    \cup { Scenario(declaration, "none", "declaration", "none") :
             declaration \in DOMAIN Declarations }
    \cup { Scenario("standalone", "none", "empty", trailer) :
             trailer \in {"none", "declaration"} }

\* Documents about validation: identifiers and references, the presence of
\* attributes, and the flags of parse_document with and without a DOCTYPE
\* declaration.
ValidationDocuments ==
  { WithValidation(Scenario("none", "ids", root, "none"), FALSE, va) :
      root \in DOMAIN IdentifiedElements, va \in BOOLEAN }
    \cup { WithValidation(Scenario("none", "presence", root, "none"), FALSE, va) :
             root \in DOMAIN AttributedElements \cup {"empty"},
             va \in BOOLEAN }
    \cup { WithValidation(Scenario("none", prolog, root, "none"), ve, va) :
             prolog \in {"none", "doctype", "other_root", "elements"},
             root \in {"empty", "attribute", "text", "children"},
             ve \in BOOLEAN, va \in BOOLEAN }

\* The prolog that declares the entities a root element of QuotedElements
\* refers to.
QuotedProlog(root) ==
  IF root = "borne_e" THEN "tags"
  ELSE IF root = "borne_g" THEN "empty_tags"
  ELSE IF root \in {"borne_f", "borne_h"} THEN "plain_tags"
  ELSE "values"

\* Documents about the literals of attribute values.
QuotedDocuments ==
  { Scenario("none", QuotedProlog(root), root, "none") :
      root \in DOMAIN QuotedElements }

\* Documents about the normalisation of attribute values: the value
\* " a <tab>b " in a start tag, with attribute k undeclared or declared, and
\* as a declared default value.
SpacedDocuments ==
  { Scenario("none", prolog, "spaced", "none") :
      prolog \in {"none", "doctype", "cdata", "other_cdata", "other_element",
                  "tokens"} }
    \cup { Scenario("none", prolog, "empty", "none") :
             prolog \in {"cdata_default", "tokens_default"} }

\* Documents about attribute values of several tokens, in a start tag and
\* as a declared default value, with attributes validated.
TokenDocuments ==
  { WithValidation(Scenario("none", "tokens", root, "none"), FALSE, TRUE) :
      root \in {"token_good", "token_last", "token_first", "token_only"} }
    \cup { WithValidation(Scenario("none", prolog, "token_good", "none"), FALSE, TRUE) :
             prolog \in {"tokens_last", "tokens_first"} }
    \cup { WithValidation(Scenario("none", prolog, "name_good", "none"), FALSE, TRUE) :
             prolog \in {"names_last", "names_first"} }
    \cup { WithValidation(Scenario("none", "entities_last", "entity_good", "none"), FALSE, TRUE) }

\* Documents about the flags is_empty and children_only of an element.
FlagDocuments ==
  { Scenario("none", "none", root, "none") : root \in DOMAIN FlagContents }

\* Documents about the elements declared with children content, with the
\* structure of the elements validated, standalone and not.
ModelDocuments ==
  { WithValidation(Scenario(declaration, "children_model", root, "none"), TRUE, FALSE) :
      declaration \in DOMAIN Declarations, root \in DOMAIN FlagContents }

Documents ==
  TopLevelDocuments \cup EntityDocuments \cup DefaultDocuments
    \cup DeclarationDocuments \cup ValidationDocuments \cup QuotedDocuments
    \cup SpacedDocuments \cup TokenDocuments \cup FlagDocuments
    \cup ModelDocuments

document_vars == <<scenario, document, xml_declaration_possible,
                   doctype_declaration_seen, root_seen, frames, c, closed>>

(***************************************************************************)
(* Parser::parse_document(validate_elements, validate_attributes) and the  *)
(* loop of Parser::parse_element, one action per round of a loop.          *)
(***************************************************************************)
\* The deepest nesting of general entity streams the rounds are followed to.
MaxEntityDepth == 4

Init ==
  /\ scenario \in Run("Documents", <<>>)
  /\ parser = Run("Input", <<scenario>>)
  /\ pc = "document"
  /\ document = Run("Document", <<>>)
  /\ xml_declaration_possible = TRUE
  /\ doctype_declaration_seen = FALSE
  /\ root_seen = FALSE
  /\ frames = <<>>
  /\ c = NO_CHAR
  /\ closed = <<>>
  /\ delivered = <<>>
  /\ returned = <<>>

\* An exception leaves the routine.
Throw(P) ==
  /\ parser' = P
  /\ pc' = "fault"
  /\ UNCHANGED <<document_vars, delivered, returned>>

\* What a round of a loop reads: the case of the switch it takes, the parser
\* after it and the value parsed.
Round(kind, P, v) == [kind |-> kind, p |-> P, v |-> v]

\* for (Char required : String(...)): the parser past the required
\* characters.
parse_required(P, required) ==
  LET got == Run("Parser_get", <<P>>)
      P1 == Run("Parser_inc", <<got.p>>)
  IN IF required = <<>> THEN P
     ELSE IF Failed(got.p) THEN got.p
     ELSE IF got.c # Head(required)
       THEN Fail(got.p, "Unexpected character")
     ELSE IF Failed(P1) THEN P1
     ELSE Run("parse_required", <<P1, Tail(required)>>)

\* A parse_document that refuses no DOCTYPE declaration.
doctype_declaration_never_refused(seen, root) == ""

\* The two conditions under which a DOCTYPE declaration is refused: the
\* message of the exception, "" when it is allowed.
doctype_declaration_refused(seen, root) ==
  IF seen THEN "Only one DOCTYPE declaration allowed"
  ELSE IF root THEN "DOCTYPE declaration must precede root element"
  ELSE ""

\* case QUESTION_MARK, P past "<?": a processing instruction or the XML
\* declaration, [p, v] with v the document.
parse_document_instruction(P, doc, possible) ==
  LET pi == Run("parse_processing_instruction", <<P, possible>>)
      declared == Run("parse_xml_declaration", <<pi.p, doc>>)
  IN
  IF Failed(P) THEN Val(P, doc)
  ELSE IF Failed(pi.p) THEN Val(pi.p, doc)
  ELSE IF pi.v.target # Run("Txt", <<"x", "m", "l">>) THEN Val(pi.p, doc)
  ELSE IF Failed(declared.p) THEN declared
  ELSE Val([declared.p EXCEPT !.standalone = @ \/ declared.v.standalone],
           declared.v)

\* case EXCLAMATION_MARK, then '-', P at the '-': a comment.
parse_document_comment(P) ==
  LET P1 == Run("Parser_inc", <<P>>)
      second == Run("Parser_get", <<P1>>)
      P2 == Run("Parser_inc", <<second.p>>)
  IN
  IF Failed(P1) THEN P1
  ELSE IF Failed(second.p) THEN second.p
  ELSE IF second.c # HYPHEN THEN Fail(second.p, "Unexpected character")
  ELSE IF Failed(P2) THEN P2
  ELSE Run("parse_comment", <<P2>>)

\* case EXCLAMATION_MARK, not a comment, P past "<!": the DOCTYPE
\* declaration, [p, v] with v the declaration.
parse_document_doctype(P, seen, root) ==
  LET P1 == Run("parse_required", <<P, Run("Txt", <<"D", "O", "C", "T", "Y",
    "P", "E">>)>>)
      refused == doctype_declaration_refused(seen, root)
  IN
  IF Failed(P1) THEN ThrownVal(P1, P1.err)
  ELSE IF refused # "" THEN ThrownVal(P1, refused)
  ELSE Run("parse_doctype_declaration", <<P1>>)

\* default, P past '<': the tag of the root element.
parse_document_root(P, dtd, root) ==
  LET tag == Run("parse_tag", <<P, dtd>>) IN
  IF root THEN ThrownVal(P, "Only one root element allowed")
  ELSE IF Failed(tag.p) THEN tag
  ELSE IF tag.v.type = "end" THEN ThrownVal(tag.p, "Not expecting end tag")
  ELSE tag

\* One round of the loop of parse_document.
parse_document_round(P, doc, possible, seen, root) ==
  LET top_c == Run("Parser_get", <<P>>)
      top_after == Run("Parser_inc", <<top_c.p>>)
      top_next == Run("Parser_get", <<top_after>>)
      top_markup == Run("Parser_inc", <<top_next.p>>)
      top_third == Run("Parser_get", <<top_markup>>)
      instruction == Run("parse_document_instruction", <<top_markup, doc, possible>>)
      doctype == Run("parse_document_doctype", <<top_third.p, seen, root>>)
      tag == Run("parse_document_root", <<top_next.p, doc.doctype_declaration, root>>)
  IN
  IF Failed(top_c.p) THEN Round("unexpected", top_c.p, <<>>)
  ELSE IF is_whitespace(top_c.c) THEN Round("whitespace", top_after, <<>>)
  ELSE IF top_c.c # LEFT_ANGLE_BRACKET
    THEN Round("unexpected", Fail(top_c.p, "Expecting '<'"), <<>>)
  ELSE IF Failed(top_after) THEN Round("unexpected", top_after, <<>>)
  ELSE IF Failed(top_next.p) THEN Round("unexpected", top_next.p, <<>>)
  ELSE IF top_next.c = QUESTION_MARK
    THEN Round("instruction", instruction.p, instruction.v)
  ELSE IF top_next.c # EXCLAMATION_MARK THEN Round("root", tag.p, tag.v)
  ELSE IF Failed(top_markup) THEN Round("doctype", top_markup, <<>>)
  ELSE IF Failed(top_third.p) THEN Round("doctype", top_third.p, <<>>)
  ELSE IF top_third.c = HYPHEN
    THEN Round("comment", Run("parse_document_comment", <<top_third.p>>), <<>>)
  ELSE Round("doctype", doctype.p, doctype.v)

\* The round of the loop of parse_document that starts in the current state.
document_round ==
  Run("parse_document_round", <<parser, document, xml_declaration_possible, doctype_declaration_seen, root_seen>>)

\* The loop runs while the input has a character left.
DocumentLoop(kind, round) ==
  /\ pc = "document"
  /\ ~Parser_eof(parser)
  /\ round.kind = kind

\* A round that ends in an exception before anything is recognised.
Unexpected(round) ==
  /\ DocumentLoop("unexpected", round)
  /\ Throw(round.p)

DocumentUnexpected == Unexpected(document_round)

Whitespace(round) ==
  /\ DocumentLoop("whitespace", round)
  /\ IF Failed(round.p) THEN Throw(round.p)
     ELSE /\ parser' = round.p
          /\ xml_declaration_possible' = FALSE
          /\ UNCHANGED <<pc, scenario, document, doctype_declaration_seen,
                         root_seen, frames, c, closed, delivered, returned>>

DocumentWhitespace == Whitespace(document_round)

\* case QUESTION_MARK: a processing instruction or the XML declaration.
Instruction(round) ==
  /\ DocumentLoop("instruction", round)
  /\ IF Failed(round.p) THEN Throw(round.p)
     ELSE /\ parser' = round.p
          /\ document' = round.v
          /\ xml_declaration_possible' = FALSE
          /\ UNCHANGED <<pc, scenario, doctype_declaration_seen, root_seen,
                         frames, c, closed, delivered, returned>>

DocumentInstruction == Instruction(document_round)

\* case EXCLAMATION_MARK, then '-': a comment.
Comment(round) ==
  /\ DocumentLoop("comment", round)
  /\ IF Failed(round.p) THEN Throw(round.p)
     ELSE /\ parser' = round.p
          /\ xml_declaration_possible' = FALSE
          /\ UNCHANGED <<pc, scenario, document, doctype_declaration_seen,
                         root_seen, frames, c, closed, delivered, returned>>

DocumentComment == Comment(document_round)

\* case EXCLAMATION_MARK, not a comment: the DOCTYPE declaration.
Doctype(round) ==
  /\ DocumentLoop("doctype", round)
  /\ IF Failed(round.p) THEN Throw(round.p)
     ELSE /\ parser' = round.p
          /\ doctype_declaration_seen' = TRUE
          /\ document' = [document EXCEPT !.doctype_declaration = round.v]
          /\ xml_declaration_possible' = FALSE
          /\ UNCHANGED <<pc, scenario, root_seen, frames, c, closed,
                         delivered, returned>>

DocumentDoctype == Doctype(document_round)

\* A call of parse_element that has read a start tag: its frame.
Frame(tag, P, start_chain) ==
  [ element |-> Element(tag), char_data |-> <<>>,
    general_entity_stack_size_before |-> Len(P.general_entity_stack),
    start_chain |-> start_chain ]

\* default: the root element.
RootElement(round) ==
  /\ DocumentLoop("root", round)
  /\ IF Failed(round.p) THEN Throw(round.p)
     ELSE IF round.v.type = "empty" THEN
       /\ parser' = round.p
       /\ root_seen' = TRUE
       /\ document' = [document EXCEPT !.root = Element(round.v)]
       /\ xml_declaration_possible' = FALSE
       /\ UNCHANGED <<pc, scenario, doctype_declaration_seen, frames, c,
                      closed, delivered, returned>>
     ELSE
       /\ parser' = round.p
       /\ root_seen' = TRUE
       /\ frames' = <<Frame(round.v, round.p, <<>>)>>
       /\ pc' = "element"
       /\ UNCHANGED <<scenario, document, xml_declaration_possible,
                      doctype_declaration_seen, c, closed, delivered, returned>>

DocumentRoot == RootElement(document_round)

\* The loop ends at the end of the input.
DocumentEnd ==
  /\ pc = "document"
  /\ Parser_eof(parser)
  /\ LET invalid == IF document.doctype_declaration.exists
                      THEN Run("validate_document", <<document, scenario.validate_elements, scenario.validate_attributes>>)
                      ELSE ""
     IN
     IF ~root_seen THEN Throw(Fail(parser, "Expected a root element"))
     ELSE IF invalid # "" THEN Throw(Fail(parser, invalid))
     ELSE /\ pc' = "done"
          /\ UNCHANGED <<parser, document_vars, delivered, returned>>

(***************************************************************************)
(* The loop of Parser::parse_element.  A round reads a character with      *)
(* get(dtd.general_entities), reads again while the character is the '&'   *)
(* of a further reference, and then acts on the character.                 *)
(***************************************************************************)
top == Last(frames)

\* The active call with its element changed.
WithElement(element) == [frames EXCEPT ![Len(frames)].element = element]

\* char_data moved to the end of the text.
Flushed(frame) ==
  [frame EXCEPT !.element.text = @ \o frame.char_data, !.char_data = <<>>]

\* After a character is read: read again, or act on it.
AfterGet(got) ==
  IF Failed(got.p) THEN Throw(got.p)
  ELSE /\ parser' = got.p
       /\ c' = got.c
       /\ pc' = IF /\ got.p.general_entity_active
                   /\ got.c = AMPERSAND
                   /\ ~got.p.just_parsed_character_reference
                  THEN "reference" ELSE "content"
       /\ UNCHANGED <<scenario, document, xml_declaration_possible,
                      doctype_declaration_seen, root_seen, frames, closed,
                      delivered, returned>>

\* if (general_entity_eof()) end_general_entity(); c = get(general_entities)
ElementGet ==
  /\ pc = "element"
  /\ Len(ChainOf(parser.general_entity_stack)) <= MaxEntityDepth
  /\ AfterGet(Run("Parser_get_general", <<IF general_entity_eof(parser) THEN end_general_entity(parser)
                                              ELSE parser, document.doctype_declaration.general_entities, FALSE>>))

\* while (c == AMPERSAND && !just_parsed_character_reference) c = get(...)
ElementReference ==
  /\ pc = "reference"
  /\ Len(ChainOf(parser.general_entity_stack)) <= MaxEntityDepth
  /\ AfterGet(Run("Parser_get_general", <<parser, document.doctype_declaration.general_entities, FALSE>>))

\* if (just_parsed_character_reference): the character is text.
ElementCharacterReference ==
  /\ pc = "content"
  /\ parser.just_parsed_character_reference
  /\ frames' = [frames EXCEPT ![Len(frames)] =
                  [Flushed(top) EXCEPT !.element.text = Append(@, c),
                                       !.element.is_empty = FALSE,
                                       !.element.children_only = FALSE]]
  /\ pc' = "element"
  /\ UNCHANGED <<parser, scenario, document, xml_declaration_possible,
                 doctype_declaration_seen, root_seen, c, closed, delivered, returned>>

\* case RIGHT_ANGLE_BRACKET and default: character data.  P1 is the parser
\* after operator++.
Character(P1) ==
  /\ pc = "content"
  /\ ~parser.just_parsed_character_reference
  /\ c # LEFT_ANGLE_BRACKET
  /\ LET char_data == top.char_data
         n == Len(char_data)
     IN
     IF /\ c = RIGHT_ANGLE_BRACKET /\ n >= 2
        /\ char_data[n] = RIGHT_SQUARE_BRACKET
        /\ char_data[n - 1] = RIGHT_SQUARE_BRACKET
       THEN Throw(Fail(parser, "']]>' literal disallowed in character data"))
     ELSE IF c # RIGHT_ANGLE_BRACKET /\ ~valid_character(c)
       THEN Throw(Fail(parser, "Invalid character"))
     ELSE IF Failed(P1) THEN Throw(P1)
     ELSE /\ parser' = P1
          /\ frames' = [frames EXCEPT ![Len(frames)] =
                          [top EXCEPT
                             !.char_data = Append(@, c),
                             !.element.is_empty = FALSE,
                             !.element.children_only =
                               @ /\ c # RIGHT_ANGLE_BRACKET
                                 /\ is_whitespace(c)]]
          /\ pc' = "element"
          /\ UNCHANGED <<scenario, document, xml_declaration_possible,
                         doctype_declaration_seen, root_seen, c, closed,
                         delivered, returned>>

ElementCharacter == Character(Run("Parser_inc", <<parser>>))

\* A comment, a CDATA section or a processing instruction: [p, v], v the
\* element.
parse_element_section(P, next, element) ==
  LET P1 == Run("Parser_inc", <<P>>)
      third == Run("Parser_get", <<P1>>)
      P2 == Run("Parser_inc", <<third.p>>)
      second == Run("Parser_get", <<P2>>)
      P3 == Run("Parser_inc", <<second.p>>)
      comment == Run("parse_comment", <<P3>>)
      required == Run("parse_required", <<P2, Run("Txt", <<"C", "D", "A",
        "T", "A", "LBRK">>)>>)
      cdata == Run("parse_cdata", <<required>>)
      pi == Run("parse_processing_instruction", <<P1, FALSE>>)
  IN
  IF Failed(P1) THEN ThrownVal(P1, P1.err)
  ELSE IF next = QUESTION_MARK THEN
    IF Failed(pi.p) THEN pi
    ELSE Val(pi.p, [element EXCEPT !.children_only = FALSE])
  ELSE IF Failed(third.p) THEN ThrownVal(third.p, third.p.err)
  ELSE IF third.c = HYPHEN THEN
    IF Failed(P2) THEN ThrownVal(P2, P2.err)
    ELSE IF Failed(second.p) THEN ThrownVal(second.p, second.p.err)
    ELSE IF second.c # HYPHEN THEN ThrownVal(second.p, "Unexpected character")
    ELSE IF Failed(P3) THEN ThrownVal(P3, P3.err)
    ELSE IF Failed(comment) THEN ThrownVal(comment, comment.err)
    ELSE Val(comment, element)
  ELSE IF third.c = LEFT_SQUARE_BRACKET THEN
    IF Failed(P2) THEN ThrownVal(P2, P2.err)
    ELSE IF Failed(required) THEN ThrownVal(required, required.err)
    ELSE IF Failed(cdata.p) THEN cdata
    ELSE Val(cdata.p, [element EXCEPT !.text = @ \o cdata.v,
                                      !.children_only = FALSE])
  ELSE ThrownVal(third.p, "Unexpected character")

\* case LEFT_ANGLE_BRACKET, P at the '<': a section when '!' or '?' is next,
\* else the tag read by parse_element(dtd, true).
parse_element_markup(P, dtd, element) ==
  LET content_after == Run("Parser_inc", <<P>>)
      content_next == Run("Parser_get", <<content_after>>)
      section == Run("parse_element_section", <<content_next.p, content_next.c, element>>)
      tag == Run("parse_tag", <<content_next.p, dtd>>)
  IN
  IF Failed(content_after) THEN Round("section", content_after, <<>>)
  ELSE IF Failed(content_next.p) THEN Round("section", content_next.p, <<>>)
  ELSE IF content_next.c \in {EXCLAMATION_MARK, QUESTION_MARK}
    THEN Round("section", section.p, section.v)
  ELSE IF ~Failed(tag.p) /\ tag.v.type = "end"
    THEN Round("end", tag.p, tag.v)
  ELSE Round("child", tag.p, tag.v)

\* The markup the round reads in the current state.
element_markup ==
  Run("parse_element_markup", <<parser, document.doctype_declaration, Flushed(top).element>>)

ContentMarkup(kind, round) ==
  /\ pc = "content"
  /\ ~parser.just_parsed_character_reference
  /\ c = LEFT_ANGLE_BRACKET
  /\ round.kind = kind

\* case LEFT_ANGLE_BRACKET, then '!' or '?'.
Section(round) ==
  /\ ContentMarkup("section", round)
  /\ IF Failed(round.p) THEN Throw(round.p)
     ELSE /\ parser' = round.p
          /\ frames' = [frames EXCEPT ![Len(frames)] =
                          [Flushed(top) EXCEPT
                             !.element = [round.v EXCEPT !.is_empty = FALSE]]]
          /\ pc' = "element"
          /\ UNCHANGED <<scenario, document, xml_declaration_possible,
                         doctype_declaration_seen, root_seen, c, closed,
                         delivered, returned>>

ElementSection == Section(element_markup)

\* default: a child element, its start tag or its empty tag.
Child(round) ==
  /\ ContentMarkup("child", round)
  /\ IF Failed(round.p) THEN Throw(round.p)
     ELSE
       /\ parser' = round.p
       /\ pc' = "element"
       /\ frames' =
            IF round.v.type = "empty"
              THEN [frames EXCEPT ![Len(frames)] =
                      [Flushed(top) EXCEPT
                         !.element.children = Append(@, Element(round.v)),
                         !.element.is_empty = FALSE]]
              ELSE Append([frames EXCEPT ![Len(frames)] = Flushed(top)],
                          Frame(round.v, round.p,
                                ChainOf(parser.general_entity_stack)))
       /\ UNCHANGED <<scenario, document, xml_declaration_possible,
                      doctype_declaration_seen, root_seen, c, closed,
                      delivered, returned>>

ElementChild == Child(element_markup)

\* The element of the active call, which its end tag has completed, given to
\* the caller: parse_document for the root, else the call of the parent.
Return(P, element) ==
  /\ parser' = P
  /\ closed' = Append(closed,
                      [ name |-> element.tag.name,
                        start_chain |-> top.start_chain,
                        end_chain |-> ChainOf(parser.general_entity_stack) ])
  /\ IF Len(frames) = 1
       THEN /\ document' = [document EXCEPT !.root = element]
            /\ frames' = <<>>
            /\ xml_declaration_possible' = FALSE
            /\ pc' = "document"
       ELSE /\ frames' = [Front(frames) EXCEPT ![Len(frames) - 1] =
                            [@ EXCEPT
                               !.element.children = Append(@, element),
                               !.element.is_empty = FALSE]]
            /\ pc' = "element"
            /\ UNCHANGED <<document, xml_declaration_possible>>
  /\ UNCHANGED <<scenario, doctype_declaration_seen, root_seen, c, delivered, returned>>

\* default: the end tag, which ends the active call.
End(round) ==
  /\ ContentMarkup("end", round)
  /\ IF round.v.name # top.element.tag.name
       THEN Throw(Fail(round.p, "End tag name must match start tag name"))
     ELSE IF Len(round.p.general_entity_stack)
               # top.general_entity_stack_size_before
       THEN Throw(Fail(round.p, "Element must start and end in the same entity replacement text"))
     ELSE Return(round.p, Flushed(top).element)

ElementEnd == End(element_markup)

Next ==
  \/ DocumentUnexpected
  \/ DocumentWhitespace
  \/ DocumentInstruction
  \/ DocumentComment
  \/ DocumentDoctype
  \/ DocumentRoot
  \/ DocumentEnd
  \/ ElementGet
  \/ ElementReference
  \/ ElementCharacterReference
  \/ ElementCharacter
  \/ ElementSection
  \/ ElementChild
  \/ ElementEnd

vars == <<parser, pc, scenario, document, xml_declaration_possible,
          doctype_declaration_seen, root_seen, frames, c, closed, delivered, returned>>

Spec == Init /\ [][Next]_vars

(***************************************************************************)
(* Reading the main input: the loop every routine runs on the raw input,   *)
(* get() for the current character and operator++ to move past it, until   *)
(* eof().                                                                  *)
(***************************************************************************)
MaxEolLen == 4

EolAlphabet == Range(Run("Txt", <<"a", "b", "CR", "LF">>))

StringsUpTo(alphabet, maxLen) ==
  UNION {[1..len -> alphabet] : len \in 0..maxLen}

RECURSIVE NormaliseEol(_)
\* The input with every CR LF pair and every lone CR replaced by one LF.
NormaliseEol(str) ==
  IF str = <<>> THEN <<>>
  ELSE IF Len(str) >= 2 /\ str[1] = CARRIAGE_RETURN /\ str[2] = LINE_FEED
    THEN <<LINE_FEED>> \o NormaliseEol(SubSeq(str, 3, Len(str)))
  ELSE IF str[1] = CARRIAGE_RETURN
    THEN <<LINE_FEED>> \o NormaliseEol(Tail(str))
  ELSE <<str[1]>> \o NormaliseEol(Tail(str))

IsPrefix(pre, str) ==
  Len(pre) <= Len(str) /\ SubSeq(str, 1, Len(pre)) = pre

\* The variables of parse_document, which the reading loop leaves alone.
NoDocument ==
  /\ document = Run("Document", <<>>)
  /\ xml_declaration_possible = TRUE
  /\ doctype_declaration_seen = FALSE
  /\ root_seen = FALSE
  /\ frames = <<>>
  /\ c = NO_CHAR
  /\ closed = <<>>

Init_Eol ==
  /\ \E bytes \in StringsUpTo(Run("EolAlphabet", <<>>), MaxEolLen) :
       parser = NewParser(bytes)
  /\ pc = "reading"
  /\ scenario = Scenario("none", "none", "none", "none")
  /\ delivered = <<>>
  /\ returned = <<>>
  /\ NoDocument

\* get() for the character, then operator++: [p, c].
read_character(P) ==
  LET got == Run("Parser_get", <<P>>) IN
  IF Failed(got.p) THEN Ret(got.p, NO_CHAR)
  ELSE Ret(Run("Parser_inc", <<got.p>>), got.c)

\* One round of the reading loop.
Read(got) ==
  /\ pc = "reading"
  /\ ~Parser_eof(parser)
  /\ parser' = got.p
  /\ delivered' = IF got.c = NO_CHAR THEN delivered
                  ELSE Append(delivered, got.c)
  /\ pc' = IF Failed(got.p) THEN "fault" ELSE "reading"
  /\ UNCHANGED <<document_vars, returned>>

ReadCharacter == Read(Run("read_character", <<parser>>))

\* The loop ends when the stream has no byte left.
ReadEnd ==
  /\ pc = "reading"
  /\ Parser_eof(parser)
  /\ pc' = "read"
  /\ UNCHANGED <<parser, delivered, document_vars, returned>>

Next_Eol == ReadCharacter \/ ReadEnd

Spec_Eol == Init_Eol /\ [][Next_Eol]_vars

(***************************************************************************)
(* validate.cpp: the children of an element against the content model of   *)
(* its declaration.                                                        *)
(***************************************************************************)
ELEMENT_CONTENT_COUNT_MINIMA ==
  [one |-> 1, one_or_more |-> 1, zero_or_one |-> 0, zero_or_more |-> 0]

ELEMENT_CONTENT_COUNT_MAXIMA ==
  [ one |-> 1, one_or_more |-> INT_MAX, zero_or_one |-> 1,
    zero_or_more |-> INT_MAX ]

\* What a call of valid_element_content_helper leaves: its result and pos.
\* The field stalled is a history variable: how the groups fared whose
\* iteration made no progress, "satisfied" for one that returned true and
\* "failed" for one that returned false.
Matched(ok, pos, stalled) == [ok |-> ok, pos |-> pos, stalled |-> stalled]

\* The loop of a name: [count, pos].
match_name(element, ecm, pos, count, max_count) ==
  IF /\ count < max_count
     /\ pos < Len(element.children)
     /\ element.children[pos + 1].tag.name = ecm.name
    THEN Run("match_name", <<element, ecm, pos + 1, count + 1, max_count>>)
    ELSE [count |-> count, pos |-> pos, stalled |-> {}]

\* std::all_of(parts, recursive_call) from part ii on: it stops at the first
\* part that does not match, and pos stays where the parts have moved it.
all_of(element, parts, ii, pos, stalled) ==
  IF ii > Len(parts) THEN Matched(TRUE, pos, stalled)
  ELSE
    LET part == Run("valid_element_content_helper", <<element, parts[ii], pos>>)
    IN IF ~part.ok THEN Matched(FALSE, part.pos, stalled \cup part.stalled)
       ELSE Run("all_of", <<element, parts, ii + 1, part.pos,
                            stalled \cup part.stalled>>)

\* std::any_of(parts, recursive_call) from part ii on: it stops at the first
\* part that matches.
any_of(element, parts, ii, pos, stalled) ==
  IF ii > Len(parts) THEN Matched(FALSE, pos, stalled)
  ELSE
    LET part == Run("valid_element_content_helper", <<element, parts[ii], pos>>)
    IN IF part.ok THEN Matched(TRUE, part.pos, stalled \cup part.stalled)
       ELSE Run("any_of", <<element, parts, ii + 1, part.pos,
                            stalled \cup part.stalled>>)

\* The loop of a group: [count, pos].
match_group(element, ecm, pos, previous_pos, count, max_count, stalled) ==
  IF count >= max_count
    THEN [count |-> count, pos |-> pos, stalled |-> stalled]
  ELSE
    LET parts == IF ecm.is_sequence
                   THEN Run("all_of", <<element, ecm.parts, 1, pos, stalled>>)
                   ELSE Run("any_of", <<element, ecm.parts, 1, pos, stalled>>)
    IN IF ~parts.ok
         THEN [count |-> count, pos |-> parts.pos, stalled |-> parts.stalled]
       ELSE IF parts.pos = previous_pos
         THEN [count |-> INT_MAX, pos |-> parts.pos,
               stalled |-> parts.stalled]
       ELSE Run("match_group", <<element, ecm, parts.pos, parts.pos,
                                  count + 1, max_count, parts.stalled>>)

\* valid_element_content_helper(element, ecm, pos).
valid_element_content_helper(element, ecm, pos) ==
  LET min_count == ELEMENT_CONTENT_COUNT_MINIMA[ecm.count]
      max_count == ELEMENT_CONTENT_COUNT_MAXIMA[ecm.count]
      loop == IF ecm.is_name
                THEN Run("match_name", <<element, ecm, pos, 0, max_count>>)
                ELSE Run("match_group", <<element, ecm, pos, pos, 0, max_count, {}>>)
      ok == loop.count >= min_count /\ loop.count <= max_count
  IN Matched(ok, loop.pos,
             loop.stalled
               \cup (IF ~ecm.is_name /\ loop.count = INT_MAX
                       THEN {IF ok THEN "satisfied" ELSE "failed"}
                       ELSE {}))

\* A validation of the content that refuses nothing.
validate_element_content_unchecked(element, ecm, standalone) ==
  [err |-> "", stalled |-> {}]

\* validate_element_content(element, ecm, standalone): the message of the
\* exception, "" when there is none, and what the helper left.
validate_element_content(element, ecm, standalone) ==
  LET matched == Run("valid_element_content_helper", <<element, ecm, 0>>) IN
  IF standalone /\ element.text # <<>>
    THEN [err |-> "Standalone document cannot have whitespace in element with element content",
          stalled |-> {}]
  ELSE IF ~element.children_only
    THEN [err |-> "Element with element content must have child elements only",
          stalled |-> {}]
  ELSE IF ~matched.ok \/ matched.pos < Len(element.children)
    THEN [err |-> "Element did not match element content model",
          stalled |-> matched.stalled]
  ELSE [err |-> "", stalled |-> matched.stalled]

\* The most children the validated elements have.
MaxChildren == 3

\* The content models the elements are validated against.
ContentModels ==
  [ pair |->                       \* (a, b)
      GroupModel(TRUE, <<NameModel(Run("Txt", <<"a">>), "one"),
        NameModel(Run("Txt", <<"b">>), "one")>>,
                 "one"),
    either |->                     \* (a | b)
      GroupModel(FALSE, <<NameModel(Run("Txt", <<"a">>), "one"),
        NameModel(Run("Txt", <<"b">>), "one")>>,
                 "one"),
    required_middle |->            \* (a, b+, c?)
      GroupModel(TRUE, <<NameModel(Run("Txt", <<"a">>), "one"),
                         NameModel(Run("Txt", <<"b">>), "one_or_more"),
                         NameModel(Run("Txt", <<"c">>), "zero_or_one")>>,
                           "one"),
    pairs |->                      \* (a, b)*
      GroupModel(TRUE, <<NameModel(Run("Txt", <<"a">>), "one"),
        NameModel(Run("Txt", <<"b">>), "one")>>,
                 "zero_or_more"),
    either_pair |->                \* ((a, b) | (a, c))
      GroupModel(FALSE,
                 << GroupModel(TRUE, <<NameModel(Run("Txt", <<"a">>), "one"),
                                       NameModel(Run("Txt", <<"b">>),
                                         "one")>>, "one"),
                    GroupModel(TRUE, <<NameModel(Run("Txt", <<"a">>), "one"),
                                       NameModel(Run("Txt", <<"c">>),
                                         "one")>>, "one") >>,
                 "one"),
    any_number |->                 \* (a*)
      GroupModel(TRUE, <<NameModel(Run("Txt", <<"a">>), "zero_or_more")>>,
        "one"),
    optional_then_any |->          \* (a?, b*)
      GroupModel(TRUE, <<NameModel(Run("Txt", <<"a">>), "zero_or_one"),
                         NameModel(Run("Txt", <<"b">>), "zero_or_more")>>,
                           "one"),
    optional_or |->                \* (a? | b)
      GroupModel(FALSE, <<NameModel(Run("Txt", <<"a">>), "zero_or_one"),
                          NameModel(Run("Txt", <<"b">>), "one")>>, "one"),
    optional_group |->             \* (a*)?
      GroupModel(TRUE, <<NameModel(Run("Txt", <<"a">>), "zero_or_more")>>,
        "zero_or_one"),
    repeated_group |->             \* (a*)*
      GroupModel(TRUE, <<NameModel(Run("Txt", <<"a">>), "zero_or_more")>>,
        "zero_or_more"),
    repeated_optional |->          \* (a?)+
      GroupModel(TRUE, <<NameModel(Run("Txt", <<"a">>), "zero_or_one")>>,
        "one_or_more"),
    any_optional |->               \* (a?)*
      GroupModel(TRUE, <<NameModel(Run("Txt", <<"a">>), "zero_or_one")>>,
        "zero_or_more"),
    repeated_any_pair |->          \* (a*, b*)+
      GroupModel(TRUE, <<NameModel(Run("Txt", <<"a">>), "zero_or_more"),
                         NameModel(Run("Txt", <<"b">>), "zero_or_more")>>,
                           "one_or_more"),
    repeated_choice |->            \* (a | b?)+
      GroupModel(FALSE, <<NameModel(Run("Txt", <<"a">>), "one"),
                          NameModel(Run("Txt", <<"b">>), "zero_or_one")>>,
                            "one_or_more") ]

\* The names of the children.
ChildNames == { Run("Txt", <<"a">>), Run("Txt", <<"b">>), Run("Txt", <<"c">>) }

\* The validated elements: a content model and the names of the children.
ContentScenarios ==
  { [model |-> model, children |-> children] :
      model \in DOMAIN ContentModels,
      children \in StringsUpTo(ChildNames, MaxChildren) }

\* The element of a scenario: its children are empty elements.
ContentElement(children) ==
  [ Element(Tag(Run("Txt", <<"r">>), "start", EmptyMap)) EXCEPT
      !.children = [ii \in 1..Len(children) |->
                      Element(Tag(children[ii], "empty", EmptyMap))],
      !.is_empty = children = <<>> ]

\* validate_element_content on the element of a scenario.
validate_scenario(s) ==
  Run("validate_element_content", <<ContentElement(s.children), ContentModels[s.model], FALSE>>)

Init_Content ==
  /\ scenario \in Run("ContentScenarios", <<>>)
  /\ parser = NewParser(<<>>)
  /\ pc = "validate"
  /\ delivered = <<>>
  /\ returned = <<>>
  /\ NoDocument

\* validate_element: the call of validate_element_content returns or throws.
Validated(validated) ==
  /\ pc = "validate"
  /\ returned' = validated
  /\ pc' = IF validated.err = "" THEN "validated" ELSE "fault"
  /\ UNCHANGED <<parser, delivered, document_vars>>

ValidateElementContent == Validated(Run("validate_scenario", <<scenario>>))

Next_Content == ValidateElementContent

Spec_Content == Init_Content /\ [][Next_Content]_vars


(***************************************************************************)
(* valid_element_content_helper step by step: one action per iteration of  *)
(* a loop, per call and per return.  frames is the call stack: the frame   *)
(* of validate_element_content, which holds pos, and above it one frame    *)
(* per call of the helper.                                                 *)
(***************************************************************************)
\* The most iterations of one loop that are followed.
MaxIterations == 6

\* The frame of validate_element_content.
CallerFrame(pos) == [routine |-> "validate_element_content", pos |-> pos]

\* The frame of a call of valid_element_content_helper: the loop is to be
\* tested ("loop"), a part is being matched ("parts") or the loop is over
\* ("over"); part is the part being matched.
HelperFrame(ecm, pos) ==
  [ routine |-> "valid_element_content_helper", ecm |-> ecm, count |-> 0,
    previous_pos |-> pos, part |-> 0, at |-> "loop" ]

\* pos, which every call shares by reference.
Pos == frames[1].pos

Init_Matcher ==
  /\ scenario \in Run("ContentScenarios", <<>>)
  /\ parser = NewParser(<<>>)
  /\ pc = "matching"
  /\ delivered = <<>>
  /\ returned = <<>>
  /\ document = Run("Document", <<>>)
  /\ xml_declaration_possible = TRUE
  /\ doctype_declaration_seen = FALSE
  /\ root_seen = FALSE
  /\ frames = <<CallerFrame(0), HelperFrame(ContentModels[scenario.model], 0)>>
  /\ c = NO_CHAR
  /\ closed = <<>>

matcher_unchanged ==
  UNCHANGED <<parser, scenario, delivered, document, xml_declaration_possible,
              doctype_declaration_seen, root_seen, c, closed>>

\* The condition of the loop of a name.
name_matches(frame) ==
  /\ frame.count < ELEMENT_CONTENT_COUNT_MAXIMA[frame.ecm.count]
  /\ Pos < Len(scenario.children)
  /\ scenario.children[Pos + 1] = frame.ecm.name

\* A test for an iteration without progress that never finds one.
never_stalled(pos, previous_pos) == FALSE

\* if (pos == previous_pos): the iteration made no progress.
stalled(pos, previous_pos) == pos = previous_pos

\* The loop of the top frame is over and the call is about to return.
loop_over(frame) ==
  IF frame.ecm.is_name THEN ~name_matches(frame)
  ELSE \/ frame.at = "over"
       \/ /\ frame.at = "loop"
          /\ frame.count >= ELEMENT_CONTENT_COUNT_MAXIMA[frame.ecm.count]

\* An iteration of the loop of a name: count++, pos++.
MatchName ==
  /\ pc = "matching"
  /\ Last(frames).ecm.is_name
  /\ name_matches(Last(frames))
  /\ Last(frames).count < MaxIterations
  /\ frames' = [frames EXCEPT ![Len(frames)].count = @ + 1, ![1].pos = @ + 1]
  /\ UNCHANGED <<pc, returned>>
  /\ matcher_unchanged

\* The loop of a group goes on: the helper is called on the first part.
GroupParts ==
  /\ pc = "matching"
  /\ ~Last(frames).ecm.is_name
  /\ Last(frames).at = "loop"
  /\ Last(frames).count < ELEMENT_CONTENT_COUNT_MAXIMA[Last(frames).ecm.count]
  /\ frames' = Append([frames EXCEPT ![Len(frames)].at = "parts",
                                     ![Len(frames)].part = 1],
                      HelperFrame(Last(frames).ecm.parts[1], Pos))
  /\ UNCHANGED <<pc, returned>>
  /\ matcher_unchanged

\* return count >= min_count && count <= max_count.
HelperReturn ==
  /\ pc = "matching"
  /\ loop_over(Last(frames))
  /\ returned' =
       [ok |-> /\ Last(frames).count >= ELEMENT_CONTENT_COUNT_MINIMA[Last(frames).ecm.count]
               /\ Last(frames).count <= ELEMENT_CONTENT_COUNT_MAXIMA[Last(frames).ecm.count]]
  /\ frames' = Front(frames)
  /\ pc' = IF Len(frames) = 2 THEN "matched" ELSE "matching"
  /\ matcher_unchanged

\* The call on a part has returned to the group of the top frame.
part_returned ==
  /\ pc = "matching"
  /\ ~Last(frames).ecm.is_name
  /\ Last(frames).at = "parts"
  /\ returned # <<>>

\* std::all_of and std::any_of go on to the next part.
PartNext ==
  /\ part_returned
  /\ Last(frames).ecm.is_sequence = returned.ok
  /\ Last(frames).part < Len(Last(frames).ecm.parts)
  /\ frames' = Append([frames EXCEPT ![Len(frames)].part = @ + 1],
                      HelperFrame(Last(frames).ecm.parts[Last(frames).part + 1], Pos))
  /\ returned' = <<>>
  /\ UNCHANGED pc
  /\ matcher_unchanged

\* The body of the loop of a group, given whether the iteration stalled.
IterationEndWith(no_progress) ==
  /\ part_returned
  /\ returned.ok
  /\ Last(frames).ecm.is_sequence => Last(frames).part = Len(Last(frames).ecm.parts)
  /\ Last(frames).count < MaxIterations
  /\ frames' = IF no_progress
                 THEN [frames EXCEPT ![Len(frames)].count = INT_MAX,
                                     ![Len(frames)].at = "over"]
                 ELSE [frames EXCEPT ![Len(frames)].count = @ + 1,
                                     ![Len(frames)].previous_pos = Pos,
                                     ![Len(frames)].at = "loop"]
  /\ returned' = <<>>
  /\ UNCHANGED pc
  /\ matcher_unchanged

IterationEnd == IterationEndWith(stalled(Pos, Last(frames).previous_pos))

\* std::all_of or std::any_of is false and the loop ends.
LoopEnd ==
  /\ part_returned
  /\ ~returned.ok
  /\ ~Last(frames).ecm.is_sequence => Last(frames).part = Len(Last(frames).ecm.parts)
  /\ frames' = [frames EXCEPT ![Len(frames)].at = "over"]
  /\ returned' = <<>>
  /\ UNCHANGED pc
  /\ matcher_unchanged

Next_Matcher ==
  \/ MatchName
  \/ GroupParts
  \/ HelperReturn
  \/ PartNext
  \/ IterationEnd
  \/ LoopEnd

Spec_Matcher == Init_Matcher /\ [][Next_Matcher]_vars

\* The matcher is one sequential computation: a step that can be taken is
\* taken.
Spec_MatcherLive == Spec_Matcher /\ WF_vars(Next_Matcher)
(***************************************************************************)
(* Validation of a parsed document against its DTD (validate.cpp).  A      *)
(* routine that throws is the message of its exception, "" when there is   *)
(* none; the names the source adds to a message are left out.              *)
(***************************************************************************)
RECURSIVE String_less(_, _)
\* operator< of String (std::vector<Char>): lexicographic order.
String_less(a, b) ==
  IF b = <<>> THEN FALSE
  ELSE IF a = <<>> THEN TRUE
  ELSE IF a[1] # b[1] THEN a[1] < b[1]
  ELSE String_less(Tail(a), Tail(b))

RECURSIVE Keys(_)
\* The keys of a std::map in the order a loop over the map visits them.
Keys(keys) ==
  IF keys = {} THEN <<>>
  ELSE LET least == CHOOSE k \in keys : \A o \in keys \ {k} : String_less(k, o)
       IN <<least>> \o Keys(keys \ {least})

RECURSIVE Tokens(_, _)
\* The tokens the loops over an IDREFS or ENTITIES value look up: the
\* stretches of the value between its spaces, token being the one in hand.
Tokens(value, token) ==
  IF value = <<>> THEN {token}
  ELSE IF Head(value) = SPACE THEN {token} \cup Tokens(Tail(value), <<>>)
  ELSE Tokens(Tail(value), Append(token, Head(value)))

\* validate_mixed_content(element, mcm).
validate_mixed_content(element, mcm) ==
  IF \A ii \in 1..Len(element.children) :
       element.children[ii].tag.name \in mcm.choices
    THEN "" ELSE "Element did not match mixed content model"

\* The loop of validate_element over the children.
validate_element_children(children, ii, element_declarations, standalone) ==
  LET child == Run("validate_element", <<children[ii], element_declarations, standalone>>)
  IN
  IF ii > Len(children) THEN ""
  ELSE IF child # "" THEN child
  ELSE Run("validate_element_children", <<children, ii + 1, element_declarations, standalone>>)

\* validate_element(element, element_declarations, standalone).
validate_element(element, element_declarations, standalone) ==
  LET ed == element_declarations[element.tag.name]
      content == Run("validate_element_content", <<element, ed.element_content, standalone>>)
      own == IF ed.type = "empty" /\ ~element.is_empty
               THEN "Element declared EMPTY but contains content"
             ELSE IF ed.type = "children" THEN content.err
             ELSE IF ed.type = "mixed"
               THEN validate_mixed_content(element, ed.mixed_content)
             ELSE ""
  IN
  IF element.tag.name \notin DOMAIN element_declarations
    THEN "Undeclared element"
  ELSE IF own # "" THEN own
  ELSE Run("validate_element_children", <<element.children, 1, element_declarations, standalone>>)

\* An IDREF lookup that finds every value.
idref_always_matches(value, ids) == TRUE

\* ids.count(value) of validate_attributes: the value is an ID of the
\* document.
idref_matches(value, ids) == value \in ids

\* A check that misses no attribute.
attribute_never_missing(ad) == FALSE

\* The attribute is absent from the element and its declaration is not
\* #IMPLIED.
attribute_missing(ad) == ad.presence # "implied"

\* The body of the loop of validate_attributes over the declarations: the
\* checks of one declared attribute.
validate_declared_attribute(element, dtd, ids, attribute_name) ==
  LET attributes == element.tag.attributes
      ad == dtd.attribute_list_declarations[element.tag.name][attribute_name]
      value == attributes[attribute_name]
      invalid == Run("validate_default_attribute_value", <<ad, value>>)
      is_unparsed_entity(name) ==
        /\ name \in DOMAIN dtd.general_entities
        /\ dtd.general_entities[name].is_unparsed
  IN
  IF attribute_name \notin DOMAIN attributes THEN
    IF attribute_missing(ad) THEN "REQUIRED attribute" ELSE ""
  ELSE IF ad.presence = "fixed" /\ value # ad.default_value
    THEN "does not match default value in element"
  ELSE IF ad.presence # "fixed" /\ invalid # "" THEN invalid
  ELSE IF ad.type = "idref" /\ ~idref_matches(value, ids)
    THEN "IDREF value must match an ID value in the document"
  ELSE IF ad.type = "idrefs" /\ \E idref \in Tokens(value, <<>>) : ~idref_matches(idref, ids)
    THEN "All IDREFS values must match an ID value in the document"
  ELSE IF ad.type = "entity" /\ ~is_unparsed_entity(value)
    THEN "ENTITY value must match the name of a declared unparsed entity"
  ELSE IF ad.type = "entities" /\ \E name \in Tokens(value, <<>>) : ~is_unparsed_entity(name)
    THEN "All ENTITIES values must match the name of a declared unparsed entity"
  ELSE ""

\* The loop of validate_attributes over the declarations of the element, in
\* the order of the map.
validate_declared_attributes(element, dtd, ids, names, ii) ==
  LET declared == Run("validate_declared_attribute", <<element, dtd, ids, names[ii]>>)
  IN
  IF ii > Len(names) THEN ""
  ELSE IF declared # "" THEN declared
  ELSE Run("validate_declared_attributes", <<element, dtd, ids, names, ii + 1>>)

\* The loop of validate_attributes over the children.
validate_attributes_children(children, ii, dtd, ids) ==
  LET child == Run("validate_attributes", <<children[ii], dtd, ids>>) IN
  IF ii > Len(children) THEN ""
  ELSE IF child # "" THEN child
  ELSE Run("validate_attributes_children", <<children, ii + 1, dtd, ids>>)

\* registered after the loop of validate_attributes: the attributes of the
\* element that are declared.
registered_attributes(attributes, ald) ==
  Cardinality(DOMAIN attributes \cap DOMAIN ald)

\* validate_attributes(element, dtd, ids).
validate_attributes(element, dtd, ids) ==
  LET lists == dtd.attribute_list_declarations
      attributes == element.tag.attributes
      ald == lists[element.tag.name]
      declared == Run("validate_declared_attributes", <<element, dtd, ids, Keys(DOMAIN ald), 1>>)
      own == IF element.tag.name \notin DOMAIN lists THEN
               IF DOMAIN attributes # {}
                 THEN "Element with attribute must have ATTLIST declaration"
                 ELSE ""
             ELSE IF declared # "" THEN declared
             ELSE IF registered_attributes(attributes, ald) < Cardinality(DOMAIN attributes)
               THEN "Undeclared attributes found in element"
             ELSE ""
  IN
  IF own # "" THEN own
  ELSE Run("validate_attributes_children", <<element.children, 1, dtd, ids>>)

\* What parse_and_validate_ids leaves: the message of its exception, "" when
\* there is none, and the set of the identifiers.
Identified(err, ids) == [err |-> err, ids |-> ids]

\* The loop of parse_and_validate_ids over the children.
parse_and_validate_ids_children(children, ii, dtd, ids) ==
  LET child == Run("parse_and_validate_ids", <<children[ii], dtd, ids>>) IN
  IF ii > Len(children) THEN Identified("", ids)
  ELSE IF child.err # "" THEN child
  ELSE Run("parse_and_validate_ids_children", <<children, ii + 1, dtd, child.ids>>)

\* ids.count(id) of parse_and_validate_ids: the identifier has been seen.
id_repeated(id, ids) == id \in ids

\* parse_and_validate_ids(element, dtd, ids).
parse_and_validate_ids(element, dtd, ids) ==
  LET lists == dtd.attribute_list_declarations
      attributes == element.tag.attributes
      id_names == IF element.tag.name \in DOMAIN lists
                    THEN {name \in DOMAIN lists[element.tag.name] :
                            lists[element.tag.name][name].type = "id"}
                    ELSE {}
      attribute_name == Head(Keys(id_names))
      present == id_names # {} /\ attribute_name \in DOMAIN attributes
      id == attributes[attribute_name]
  IN
  IF present /\ id_repeated(id, ids) THEN Identified("Repeated ID value", ids)
  ELSE Run("parse_and_validate_ids_children", <<element.children, 1, dtd, IF present THEN ids \cup {id} ELSE ids>>)

\* The first check of validate_document, which none of its flags guards.
validate_root_name(doc) ==
  IF doc.root.tag.name # doc.doctype_declaration.root_name
    THEN "Root element name does not match declared root element name in DTD"
    ELSE ""

\* validate_document(document, validate_elements, validate_attributes_).
validate_document(doc, validate_elements, validate_attributes_) ==
  LET dtd == doc.doctype_declaration
      root_name == validate_root_name(doc)
      elements == Run("validate_element", <<doc.root, dtd.element_declarations, doc.standalone>>)
      identified == Run("parse_and_validate_ids", <<doc.root, dtd, {}>>)
      attributes == Run("validate_attributes", <<doc.root, dtd, identified.ids>>)
  IN
  IF root_name # "" THEN root_name
  ELSE IF validate_elements /\ elements # "" THEN elements
  ELSE IF validate_attributes_ /\ identified.err # "" THEN identified.err
  ELSE IF validate_attributes_ THEN attributes
  ELSE ""

(***************************************************************************)
(* Parser::parse_attribute_value(dtd, true, false): the value of an        *)
(* attribute that is not CDATA, as parse_attribute reads it in a start tag *)
(* and parse_attribute_declaration reads a default value.                  *)
(***************************************************************************)
\* The longest literal.
MaxValueLen == 3

\* The characters of the literals.
ValueAlphabet == Range(Run("Txt", <<"a", "b", "SP", "TAB">>))

\* The parser at the opening quote of a literal.
ValueInput(literal) ==
  NewParser(Cat(<< Run("Txt", <<"DQ">>), literal, Run("Txt", <<"DQ">>) >>))

Init_Value ==
  /\ scenario \in StringsUpTo(Run("ValueAlphabet", <<>>), MaxValueLen)
  /\ parser = Run("ValueInput", <<scenario>>)
  /\ pc = "value"
  /\ delivered = <<>>
  /\ returned = <<>>
  /\ NoDocument

\* The call returns the value or throws.
Valued(value) ==
  /\ pc = "value"
  /\ parser' = value.p
  /\ returned' = value.v
  /\ pc' = IF Failed(value.p) THEN "fault" ELSE "valued"
  /\ UNCHANGED <<delivered, document_vars>>

AttributeValue ==
  Valued(Run("parse_attribute_value", <<parser, document.doctype_declaration, TRUE, FALSE>>))

Next_Value == AttributeValue

Spec_Value == Init_Value /\ [][Next_Value]_vars

(***************************************************************************)
(* Parser::parse_character_reference, called past the "&#" of a character  *)
(* reference, on the text of the reference and its semicolon.              *)
(***************************************************************************)
\* The longest reference built from the alphabet.
MaxReferenceLen == 3

\* The last code point, which is a Char and has no entry in the
\* classification table of the C library.
LAST_CODE_POINT == UTF8_BYTE_LIMITS[4]

\* The characters of the references: digits, letters that are digits in
\* base 16, a letter that is not, the x of the prefix, a space, U+00E9
\* (which has an entry in the classification table) and U+10FFFF.
ReferenceAlphabet ==
  Range(Run("Txt", <<"D0", "D9", "a", "F", "g", "x", "SP">>)) \cup {233,
    LAST_CODE_POINT}

\* References with more digits: the greatest code point and the one after
\* it in both bases, leading zeros, code points that are no Char, and
\* numbers that are 65 modulo 2^32.
LongReferences ==
  { Run("Txt", <<"x", "D1", "D0", "F", "F", "F", "F">>), Run("Txt", <<"x",
    "D1", "D1", "D0", "D0", "D0", "D0">>), Run("Txt", <<"D1", "D1", "D1",
    "D4", "D1", "D1", "D1">>), Run("Txt", <<"D1", "D1", "D1", "D4", "D1",
    "D1", "D2">>), Run("Txt", <<"D0", "D0", "D0", "D6", "D5">>),
    Run("Txt", <<"x", "D0", "D0", "D0", "D4", "D1">>), Run("Txt", <<"x",
      "D", "D8", "D0", "D0">>), Run("Txt", <<"x", "F", "F", "F", "E">>),
      Run("Txt", <<"x", "D1", "D0", "D0", "D0", "D0">>), Run("Txt", <<"x",
      "D1", "D0", "D0", "D0", "D0", "D0", "D0", "D4", "D1">>),
    Run("Txt", <<"D4", "D2", "D9", "D4", "D9", "D6", "D7", "D3", "D6",
      "D1">>) }

References ==
  StringsUpTo(ReferenceAlphabet, MaxReferenceLen) \cup LongReferences

\* What a read beyond the classification table may yield for the one
\* character of the alphabet that lies beyond it: either bit set or clear,
\* or a fault.
BeyondChoices ==
  { Beyond(digit, xdigit, {}) :
      digit \in SUBSET {LAST_CODE_POINT}, xdigit \in SUBSET {LAST_CODE_POINT} }
    \cup { Beyond({}, {}, {LAST_CODE_POINT}) }

ReferenceScenarios ==
  { [reference |-> reference, beyond |-> beyond] :
      reference \in References, beyond \in BeyondChoices }

\* The bytes of a character in UTF-8.
Utf8(ch) ==
  IF ch < 128 THEN <<ch>>
  ELSE IF ch < 2048 THEN <<192 + (ch \div 64), 128 + (ch % 64)>>
  ELSE IF ch < 65536
    THEN <<224 + (ch \div 4096), 128 + ((ch \div 64) % 64), 128 + (ch % 64)>>
  ELSE <<240 + (ch \div 262144), 128 + ((ch \div 4096) % 64),
         128 + ((ch \div 64) % 64), 128 + (ch % 64)>>

\* The parser past the "&#" of the reference of a scenario.
ReferenceInput(s) ==
  [ NewParser(Cat([ii \in 1..Len(s.reference) |-> Utf8(s.reference[ii])])
              \o Run("Txt", <<"SEMI">>))
    EXCEPT !.ctype_beyond = s.beyond ]

Init_Reference ==
  /\ scenario \in Run("ReferenceScenarios", <<>>)
  /\ parser = Run("ReferenceInput", <<scenario>>)
  /\ pc = "reference"
  /\ delivered = <<>>
  /\ returned = <<>>
  /\ NoDocument

\* The call returns the character or throws.
Decoded(value) ==
  /\ pc = "reference"
  /\ parser' = value.p
  /\ returned' = value.c
  /\ pc' = IF Failed(value.p) THEN "fault" ELSE "decoded"
  /\ UNCHANGED <<delivered, document_vars>>

CharacterReference == Decoded(Run("parse_character_reference", <<parser>>))

Next_Reference == CharacterReference

Spec_Reference == Init_Reference /\ [][Next_Reference]_vars

(***************************************************************************)
(* parse_utf8 (utils.cpp), called on input that is not at its end, as      *)
(* Parser::get calls it.                                                   *)
(***************************************************************************)
\* The longest input.
MaxUtf8Len == 4

\* The bytes of the inputs: one of each form 0xxxxxxx, 10xxxxxx, 110xxxxx,
\* 1110xxxx, 11110xxx and 11111xxx, and the byte 255, which a char compares
\* equal to EOF.
Utf8Bytes == {65, 128, 195, 226, 240, 248, 255}

Utf8Scenarios ==
  { [bytes |-> bytes] : bytes \in StringsUpTo(Utf8Bytes, MaxUtf8Len) \ {<<>>} }

Utf8Input(s) == NewParser(s.bytes)

Init_Utf8 ==
  /\ scenario \in Run("Utf8Scenarios", <<>>)
  /\ parser = Run("Utf8Input", <<scenario>>)
  /\ pc = "utf8"
  /\ delivered = <<>>
  /\ returned = <<>>
  /\ NoDocument

\* The call returns the character or throws.
Utf8Decoded(value) ==
  /\ pc = "utf8"
  /\ parser' = value.p
  /\ returned' = value.c
  /\ pc' = IF Failed(value.p) THEN "fault" ELSE "decoded"
  /\ UNCHANGED <<delivered, document_vars>>

Utf8Character == Utf8Decoded(Run("parse_utf8", <<parser>>))

Next_Utf8 == Utf8Character

Spec_Utf8 == Init_Utf8 /\ [][Next_Utf8]_vars

(***************************************************************************)
(* EntityStream::get, operator++ and eof for the stream of a parameter     *)
(* entity: the reference is parsed, which makes the stream, and then the   *)
(* characters of the stream are read one by one as the parser reads them,  *)
(* c = get(); operator++(), until the stream is at its end.                *)
(***************************************************************************)
\* The longest replacement text.
MaxStreamLen == 3

\* The replacement texts: letters and spaces.
StreamTexts == StringsUpTo(Range(Run("Txt", <<"x", "y", "SP">>)), MaxStreamLen)

\* A parameter entity p with a replacement text, internal or in the file f,
\* referred to in an entity value or outside one.
StreamScenarios ==
  { [text |-> text, is_external |-> is_external, in_entity_value |-> in_entity_value] :
      text \in StreamTexts, is_external \in BOOLEAN, in_entity_value \in BOOLEAN }

\* The parameter entities of a scenario.
StreamEntities(s) ==
  Run("Txt", <<"p">>) :>
    IF s.is_external
      THEN [Entity(<<>>) EXCEPT !.is_external = TRUE,
                                !.external_id.type = "system",
                                !.external_id.system_id = Run("Txt", <<"f">>)]
      ELSE Entity(s.text)

\* The parser past the "%" of the reference to p.
StreamInput(s) ==
  [NewParser(Run("Txt", <<"p", "SEMI">>)) EXCEPT !.files = Run("Txt",
    <<"f">>) :> s.text]

Init_Stream ==
  /\ scenario \in Run("StreamScenarios", <<>>)
  /\ parser = Run("StreamInput", <<scenario>>)
  /\ pc = "reference"
  /\ delivered = <<>>
  /\ returned = <<>>
  /\ NoDocument

\* The stream of the entity.
TopStream(P) == Last(P.parameter_entity_stack)

\* The reference is parsed and the stream is on the stack.
Included(P) ==
  /\ pc = "reference"
  /\ parser' = P
  /\ pc' = IF Failed(P) THEN "fault"
           ELSE IF EntityStream_eof(TopStream(P)) THEN "ended" ELSE "stream"
  /\ UNCHANGED <<delivered, returned, document_vars>>

StreamInclude == Included(Run("parse_parameter_entity", <<parser, StreamEntities(scenario), scenario.in_entity_value, <<>>>>))

\* A character is read: got is what get returns and P the parser after
\* operator++.
Delivered(got, P) ==
  /\ pc = "stream"
  /\ parser' = IF Failed(got.p) THEN got.p ELSE P
  /\ returned' = Append(returned, got.c)
  /\ pc' = IF Failed(got.p) \/ Failed(P) THEN "fault"
           ELSE IF EntityStream_eof(TopStream(P)) THEN "ended" ELSE "stream"
  /\ UNCHANGED <<delivered, document_vars>>

StreamReadOf(got) == Delivered(got, Run("Parser_inc", <<got.p>>))

StreamRead == StreamReadOf(Run("Parser_get", <<parser>>))

Next_Stream == StreamInclude \/ StreamRead

Spec_Stream == Init_Stream /\ [][Next_Stream]_vars

(***************************************************************************)
(* Parser::parse_dtd_subsets, one action per round of its loop, from the   *)
(* point where parse_doctype_declaration calls it to the end of the        *)
(* DOCTYPE declaration.  The call is the one frame of frames.              *)
(***************************************************************************)
\* The most declarations of a subset.
MaxDeclarations == 3

\* The declarations of the subsets.
DtdDeclarations ==
  [ general_a |-> Run("Txt", <<"LT", "BANG", "E", "N", "T", "I", "T", "Y",
    "SP", "a", "SP", "DQ", "D1", "DQ", "GT">>),
    general_a_again |-> Run("Txt", <<"LT", "BANG", "E", "N", "T", "I", "T",
      "Y", "SP", "a", "SP", "DQ", "D2", "DQ", "GT">>),
    parameter_p |-> Run("Txt", <<"LT", "BANG", "E", "N", "T", "I", "T", "Y",
      "SP", "PCT", "SP", "p", "SP", "DQ", "x", "DQ", "GT">>),
    parameter_p_again |-> Run("Txt", <<"LT", "BANG", "E", "N", "T", "I",
      "T", "Y", "SP", "PCT", "SP", "p", "SP", "DQ", "y", "DQ", "GT">>),
    attribute_k |-> Run("Txt", <<"LT", "BANG", "A", "T", "T", "L", "I", "S",
      "T", "SP", "r", "SP", "k", "SP", "C", "D", "A", "T", "A", "SP", "DQ",
      "v", "DQ", "GT">>),
    attribute_j_k |-> Run("Txt", <<"LT", "BANG", "A", "T", "T", "L", "I",
      "S", "T", "SP", "r", "SP", "j", "SP", "C", "D", "A", "T", "A", "SP",
      "HASH", "I", "M", "P", "L", "I", "E", "D", "SP", "k", "SP", "N", "M",
      "T", "O", "K", "E", "N", "SP", "DQ", "z", "DQ", "GT">>),
    element_r |-> Run("Txt", <<"LT", "BANG", "E", "L", "E", "M", "E", "N",
      "T", "SP", "r", "SP", "A", "N", "Y", "GT">>),
    element_r_again |-> Run("Txt", <<"LT", "BANG", "E", "L", "E", "M", "E",
      "N", "T", "SP", "r", "SP", "E", "M", "P", "T", "Y", "GT">>),
    notation_n |-> Run("Txt", <<"LT", "BANG", "N", "O", "T", "A", "T", "I",
      "O", "N", "SP", "n", "SP", "S", "Y", "S", "T", "E", "M", "SP", "DQ",
      "s", "DQ", "GT">>),
    notation_n_again |-> Run("Txt", <<"LT", "BANG", "N", "O", "T", "A", "T",
      "I", "O", "N", "SP", "n", "SP", "P", "U", "B", "L", "I", "C", "SP",
      "DQ", "p", "DQ", "GT">>),
    instruction |-> Run("Txt", <<"LT", "QM", "p", "SP", "i", "QM", "GT">>),
    comment |-> Run("Txt", <<"LT", "BANG", "MINUS", "MINUS", "c", "MINUS",
      "MINUS", "GT">>),
    stray |-> Run("Txt", <<"x">>),
    empty_q |-> Run("Txt", <<"LT", "BANG", "E", "N", "T", "I", "T", "Y",
      "SP", "PCT", "SP", "q", "SP", "DQ", "DQ", "GT">>),
    text_q |-> Run("Txt", <<"LT", "BANG", "E", "N", "T", "I", "T", "Y",
      "SP", "PCT", "SP", "q", "SP", "DQ", "x", "DQ", "GT">>),
    quote_q |-> Run("Txt", <<"LT", "BANG", "E", "N", "T", "I", "T", "Y",
      "SP", "PCT", "SP", "q", "SP", "SQ", "DQ", "SQ", "GT">>),
    reference_q |-> Run("Txt", <<"LT", "BANG", "E", "N", "T", "I", "T", "Y",
      "SP", "PCT", "SP", "q", "SP", "DQ", "AMP", "HASH", "D3", "D8", "SEMI",
      "b", "SEMI", "DQ", "GT">>),
    value_plain |-> Run("Txt", <<"LT", "BANG", "E", "N", "T", "I", "T", "Y",
      "SP", "v", "SP", "DQ", "D1", "AMP", "HASH", "D6", "D5", "SEMI", "AMP",
      "b", "SEMI", "SQ", "D2", "DQ", "GT">>),
    value_q |-> Run("Txt", <<"LT", "BANG", "E", "N", "T", "I", "T", "Y",
      "SP", "v", "SP", "DQ", "D1", "PCT", "q", "SEMI", "D2", "DQ", "GT">>),
    value_q_last |-> Run("Txt", <<"LT", "BANG", "E", "N", "T", "I", "T",
      "Y", "SP", "v", "SP", "DQ", "D1", "PCT", "q", "SEMI", "DQ", "GT">>),
    value_q_twice |-> Run("Txt", <<"LT", "BANG", "E", "N", "T", "I", "T",
      "Y", "SP", "PCT", "SP", "v", "SP", "DQ", "PCT", "q", "SEMI", "PCT", "q",
      "SEMI", "DQ", "GT">>),
    type_t |-> Run("Txt", <<"LT", "BANG", "E", "N", "T", "I", "T", "Y",
      "SP", "PCT", "SP", "t", "SP", "DQ", "C", "D", "A", "T", "A", "DQ",
      "GT">>),
    attribute_t |-> Run("Txt", <<"LT", "BANG", "A", "T", "T", "L", "I", "S",
      "T", "SP", "r", "SP", "k", "SP", "PCT", "t", "SEMI", "SP", "DQ", "v",
      "DQ", "GT">>),
    declaration_d |-> Run("Txt", <<"LT", "BANG", "E", "N", "T", "I", "T",
      "Y", "SP", "PCT", "SP", "d", "SP", "DQ", "LT", "BANG", "A", "T", "T",
      "L", "I", "S", "T", "SP", "r", "SP", "k", "SP", "C", "D", "A", "T", "A",
      "SP", "SQ", "v", "SQ", "GT", "DQ", "GT">>),
    declaration_t_d |-> Run("Txt", <<"LT", "BANG", "E", "N", "T", "I", "T",
      "Y", "SP", "PCT", "SP", "d", "SP", "DQ", "LT", "BANG", "A", "T", "T",
      "L", "I", "S", "T", "SP", "r", "SP", "k", "SP", "AMP", "HASH", "D3",
      "D7", "SEMI", "t", "SEMI", "SP", "SQ", "v", "SQ", "GT", "DQ", "GT">>),
    value_t |-> Run("Txt", <<"LT", "BANG", "E", "N", "T", "I", "T", "Y",
      "SP", "v", "SP", "DQ", "PCT", "t", "SEMI", "DQ", "GT">>),
    reference_d |-> Run("Txt", <<"PCT", "d", "SEMI">>),
    builtin_lt |-> Run("Txt", <<"LT", "BANG", "E", "N", "T", "I", "T", "Y",
      "SP", "l", "t", "SP", "DQ", "AMP", "HASH", "D3", "D8", "SEMI", "HASH",
      "D6", "D0", "SEMI", "DQ", "GT">>),
    builtin_lt_plain |-> Run("Txt", <<"LT", "BANG", "E", "N", "T", "I", "T",
      "Y", "SP", "l", "t", "SP", "DQ", "AMP", "HASH", "D6", "D0", "SEMI",
      "DQ", "GT">>),
    builtin_apos |-> Run("Txt", <<"LT", "BANG", "E", "N", "T", "I", "T",
      "Y", "SP", "a", "p", "o", "s", "SP", "DQ", "AMP", "HASH", "D3", "D9",
      "SEMI", "DQ", "GT">>),
    builtin_amp_open |-> Run("Txt", <<"LT", "BANG", "E", "N", "T", "I", "T",
      "Y", "SP", "a", "m", "p", "SP", "DQ", "AMP", "HASH", "D3", "D8", "SEMI",
      "DQ", "GT">>),
    builtin_gt_open |-> Run("Txt", <<"LT", "BANG", "E", "N", "T", "I", "T",
      "Y", "SP", "g", "t", "SP", "DQ", "GT", "AMP", "HASH", "D3", "D8",
      "SEMI", "DQ", "GT">>),
    builtin_quot_unclosed |-> Run("Txt", <<"LT", "BANG", "E", "N", "T", "I",
      "T", "Y", "SP", "q", "u", "o", "t", "SP", "DQ", "AMP", "HASH", "D3",
      "D8", "SEMI", "HASH", "D3", "D4", "DQ", "GT">>),
    builtin_quot |-> Run("Txt", <<"LT", "BANG", "E", "N", "T", "I", "T",
      "Y", "SP", "q", "u", "o", "t", "SP", "DQ", "AMP", "HASH", "D3", "D8",
      "SEMI", "HASH", "D3", "D4", "SEMI", "DQ", "GT">>),
    builtin_gt_plain |-> Run("Txt", <<"LT", "BANG", "E", "N", "T", "I", "T",
      "Y", "SP", "g", "t", "SP", "DQ", "GT", "DQ", "GT">>),
    builtin_gt_trail |-> Run("Txt", <<"LT", "BANG", "E", "N", "T", "I", "T",
      "Y", "SP", "g", "t", "SP", "DQ", "AMP", "HASH", "D3", "D8", "SEMI",
      "HASH", "D6", "D2", "SEMI", "x", "DQ", "GT">>),
    builtin_lt_trail |-> Run("Txt", <<"LT", "BANG", "E", "N", "T", "I", "T",
      "Y", "SP", "l", "t", "SP", "DQ", "AMP", "HASH", "D3", "D8", "SEMI",
      "HASH", "D6", "D0", "SEMI", "x", "DQ", "GT">>),
    builtin_apos_trail |-> Run("Txt", <<"LT", "BANG", "E", "N", "T", "I",
      "T", "Y", "SP", "a", "p", "o", "s", "SP", "DQ", "AMP", "HASH", "D3",
      "D9", "SEMI", "x", "DQ", "GT">>),
    builtin_quot_twice |-> Run("Txt", <<"LT", "BANG", "E", "N", "T", "I",
      "T", "Y", "SP", "q", "u", "o", "t", "SP", "DQ", "AMP", "HASH", "D3",
      "D8", "SEMI", "HASH", "D3", "D4", "SEMI", "AMP", "HASH", "D3", "D8",
      "SEMI", "HASH", "D3", "D4", "SEMI", "DQ", "GT">>),
    default_space |-> Run("Txt", <<"LT", "BANG", "A", "T", "T", "L", "I",
      "S", "T", "SP", "r", "SP", "k", "SP", "N", "M", "T", "O", "K", "E", "N",
      "SP", "DQ", "SP", "DQ", "GT">>),
    default_token |-> Run("Txt", <<"LT", "BANG", "A", "T", "T", "L", "I",
      "S", "T", "SP", "r", "SP", "k", "SP", "N", "M", "T", "O", "K", "E", "N",
      "SP", "DQ", "SP", "z", "SP", "DQ", "GT">>) ]

\* A DOCTYPE declaration with an internal subset, an external subset or
\* both, and the declarations of each.
DtdScenario(subset, declarations, external) ==
  [subset |-> subset, declarations |-> declarations, external |-> external]

\* The sequences of at most maxLen of the declarations.
DeclarationsUpTo(ids, maxLen) == UNION {[1..len -> ids] : len \in 0..maxLen}

\* Subsets about redeclarations.
RedeclarationSubsets ==
  { DtdScenario("internal", declarations, <<>>) :
      declarations \in
        DeclarationsUpTo({"general_a", "general_a_again", "parameter_p",
                          "parameter_p_again", "attribute_k", "attribute_j_k"},
                         MaxDeclarations)
        \cup DeclarationsUpTo({"element_r", "element_r_again", "notation_n",
                               "notation_n_again", "instruction", "comment",
                               "stray"}, MaxDeclarations - 1) }

\* Subsets about the literals of entity values.
EntityValueSubsets ==
  { DtdScenario(subset, <<parameter, value>>, <<>>) :
      subset \in {"internal"},
      parameter \in {"empty_q", "text_q", "quote_q", "reference_q",
                     "comment"},
      value \in {"value_plain", "value_q", "value_q_last", "value_q_twice"} }

\* Subsets about parameter entity references, in the internal and in the
\* external subset.
ReferenceSubsets ==
  { IF subset = "external" THEN DtdScenario(subset, <<>>, declarations)
      ELSE DtdScenario(subset, declarations, <<>>) :
      subset \in {"internal", "external"},
      declarations \in
        { <<"type_t", use>> : use \in {"attribute_t", "value_t"} }
        \cup { <<"type_t", declaration, "reference_d">> :
                 declaration \in {"declaration_d", "declaration_t_d"} } }
    \cup { DtdScenario("both", <<"type_t">>, <<use>>) :
             use \in {"attribute_t", "attribute_k"} }

\* Subsets about declarations of the built-in entities and about default
\* values of spaces.
BuiltInSubsets ==
  { DtdScenario("internal", declarations, <<>>) :
      declarations \in
        DeclarationsUpTo({"builtin_lt", "builtin_lt_plain", "builtin_apos",
                          "builtin_amp_open", "builtin_gt_open",
                          "builtin_quot_unclosed", "default_space",
                          "default_token"}, MaxDeclarations - 1) }

\* Subsets about declarations of the built-in entities with text after the
\* character of the entity.
TrailingSubsets ==
  { DtdScenario("internal", declarations, <<>>) :
      declarations \in
        DeclarationsUpTo({"builtin_quot", "builtin_gt_plain",
                          "builtin_gt_trail", "builtin_lt_trail",
                          "builtin_apos_trail", "builtin_quot_twice"},
                         MaxDeclarations - 2) }

DtdScenarios ==
  RedeclarationSubsets \cup EntityValueSubsets \cup ReferenceSubsets
    \cup BuiltInSubsets \cup TrailingSubsets

RECURSIVE DeclarationTexts(_)
DeclarationTexts(declarations) ==
  IF declarations = <<>> THEN <<>>
  ELSE DtdDeclarations[Head(declarations)]
         \o DeclarationTexts(Tail(declarations))

\* The start of the DOCTYPE declaration, up to where parse_dtd_subsets is
\* called.
DtdHead(s) ==
  IF s.subset = "internal" THEN Run("Txt", <<"LT", "BANG", "D", "O", "C",
    "T", "Y", "P", "E", "SP", "r", "SP", "LBRK">>)
  ELSE IF s.subset = "external" THEN Run("Txt", <<"LT", "BANG", "D", "O",
    "C", "T", "Y", "P", "E", "SP", "r", "SP", "S", "Y", "S", "T", "E", "M",
    "SP", "SQ", "f", "SQ", "GT">>)
  ELSE Run("Txt", <<"LT", "BANG", "D", "O", "C", "T", "Y", "P", "E", "SP",
    "r", "SP", "S", "Y", "S", "T", "E", "M", "SP", "SQ", "f", "SQ", "SP",
    "LBRK">>)

\* The bytes of the document.
DtdRender(s) ==
  Cat(<< DtdHead(s),
         IF s.subset = "external" THEN <<>>
         ELSE DeclarationTexts(s.declarations) \o Run("Txt", <<"RBRK", "GT">>),
         Run("Txt", <<"LT", "r", "SLASH", "GT">>) >>)

\* The DTD when parse_dtd_subsets is called.
DtdStart(s) ==
  [DoctypeDeclaration EXCEPT
     !.exists = TRUE, !.root_name = Run("Txt", <<"r">>),
     !.external_id = IF s.subset = "internal" THEN NoExternalID
                     ELSE [type |-> "system", system_id |-> Run("Txt",
                       <<"f">>),
                           public_id |-> <<>>]]

\* The parser when the loop of parse_dtd_subsets starts: past the start of
\* the DOCTYPE declaration, the external subset opened if there is no
\* internal one.
DtdInput(s) ==
  LET P == [NewParser(DtdRender(s)) EXCEPT
              !.files = Run("Txt", <<"f">>) :> DeclarationTexts(s.external)]
      P1 == Run("parse_required", <<P, DtdHead(s)>>)
  IN IF s.subset = "external"
       THEN Run("start_external_subset", <<P1, Run("Txt", <<"f">>)>>)
       ELSE P1

\* The call of parse_dtd_subsets: its arguments and locals.
SubsetsFrame(external_subset_started) ==
  [ external_subset_started |-> external_subset_started, in_include |-> FALSE,
    initial_parameter_entity_stack_size |-> 0 ]

Init_Dtd ==
  /\ scenario \in Run("DtdScenarios", <<>>)
  /\ parser = Run("DtdInput", <<scenario>>)
  /\ pc = "dtd"
  /\ document = [Run("Document", <<>>) EXCEPT !.doctype_declaration = Run("DtdStart", <<scenario>>)]
  /\ xml_declaration_possible = FALSE
  /\ doctype_declaration_seen = FALSE
  /\ root_seen = FALSE
  /\ frames = <<SubsetsFrame(scenario.subset = "external")>>
  /\ c = NO_CHAR
  /\ closed = <<>>
  /\ delivered = <<>>
  /\ returned = <<>>

\* One round of the loop of parse_dtd_subsets.
parse_dtd_subsets_round(P, dtd, frame) ==
  LET ended == parameter_entity_eof(P)
      P0 == IF ended THEN end_parameter_entity(P) ELSE P
      got == Run("Parser_get_parameter", <<P0, dtd.parameter_entities, FALSE, FALSE, FALSE>>)
      P1 == Run("Parser_inc", <<got.p>>)
      size == Len(P1.parameter_entity_stack)
      started == Run("start_external_subset", <<P1, dtd.external_id.system_id>>)
      opened == Run("Parser_get", <<P1>>)
      P2 == Run("Parser_inc", <<opened.p>>)
      pi == Run("parse_processing_instruction", <<P2, FALSE>>)
      markup == Run("parse_subset_markup", <<opened.p, dtd, frame.external_subset_started, frame.in_include>>)
  IN
  IF ended /\ frame.external_subset_started THEN Round("end", P0, dtd)
  ELSE IF Len(P0.parameter_entity_stack) < frame.initial_parameter_entity_stack_size
    THEN Round("unexpected", Fail(P0, "DTD subset must be in the same parameter entity text"), dtd)
  ELSE IF Failed(got.p) THEN Round("unexpected", got.p, dtd)
  ELSE IF Failed(P1) THEN Round("unexpected", P1, dtd)
  ELSE IF got.c = RIGHT_SQUARE_BRACKET THEN
    IF size # frame.initial_parameter_entity_stack_size
      THEN Round("unexpected", Fail(P1, "DTD subset must be in the same parameter entity text"), dtd)
    ELSE IF /\ ~frame.external_subset_started /\ dtd.external_id.type # "none"
            /\ ~frame.in_include
      THEN Round("external", started, dtd)
    ELSE Round("end", P1, dtd)
  ELSE IF is_whitespace(got.c) THEN Round("whitespace", P1, dtd)
  ELSE IF got.c # LEFT_ANGLE_BRACKET
    THEN Round("unexpected", Fail(P1, "Unexpected character"), dtd)
  ELSE IF Failed(opened.p) THEN Round("unexpected", opened.p, dtd)
  ELSE IF opened.c = QUESTION_MARK THEN
    IF Failed(P2) THEN Round("instruction", P2, dtd)
    ELSE Round("instruction", pi.p, dtd)
  ELSE IF opened.c # EXCLAMATION_MARK
    THEN Round("unexpected", Fail(opened.p, "Unexpected character"), dtd)
  ELSE IF Failed(markup.p) THEN Round("markup", markup.p, dtd)
  ELSE IF Len(markup.p.parameter_entity_stack) # size
    THEN Round("markup", Fail(markup.p, "Entire markup declaration must be in same parameter entity text"), dtd)
  ELSE Round("markup", markup.p, markup.v)

\* The round of the loop that starts in the current state.
subsets_round ==
  Run("parse_dtd_subsets_round", <<parser, document.doctype_declaration, frames[1]>>)

SubsetsLoop(kind, round) ==
  /\ pc = "dtd"
  /\ round.kind = kind

\* A round that is not a comment, instruction or declaration: the parser
\* moves on.
SubsetsStep(round, subsets_frame) ==
  IF Failed(round.p) THEN Throw(round.p)
  ELSE /\ parser' = round.p
       /\ frames' = <<subsets_frame>>
       /\ UNCHANGED <<pc, scenario, document, xml_declaration_possible,
                      doctype_declaration_seen, root_seen, c, closed,
                      delivered, returned>>

\* A round that ends in an exception before anything is recognised.
SubsetsUnexpectedRound(round) ==
  /\ SubsetsLoop("unexpected", round)
  /\ Throw(round.p)

SubsetsUnexpected == SubsetsUnexpectedRound(subsets_round)

SubsetsWhitespaceRound(round) ==
  /\ SubsetsLoop("whitespace", round)
  /\ SubsetsStep(round, frames[1])

SubsetsWhitespace == SubsetsWhitespaceRound(subsets_round)

\* ']' of the internal subset when there is an external one: it is opened.
SubsetsExternalRound(round) ==
  /\ SubsetsLoop("external", round)
  /\ SubsetsStep(round, [frames[1] EXCEPT !.external_subset_started = TRUE, !.initial_parameter_entity_stack_size = Len(parser.parameter_entity_stack)])

SubsetsExternal == SubsetsExternalRound(subsets_round)

\* A processing instruction, which the DTD keeps.
SubsetsInstructionRound(round) ==
  /\ SubsetsLoop("instruction", round)
  /\ IF Failed(round.p) THEN Throw(round.p)
     ELSE /\ parser' = round.p
          /\ delivered' = Append(delivered, round.v)
          /\ UNCHANGED <<pc, scenario, document, xml_declaration_possible,
                         doctype_declaration_seen, root_seen, frames, c,
                         closed, returned>>

SubsetsInstruction == SubsetsInstructionRound(subsets_round)

\* A comment or a markup declaration.  delivered is the history of the DTD:
\* what it was after each comment, instruction and declaration.
SubsetsMarkupRound(round) ==
  /\ SubsetsLoop("markup", round)
  /\ IF Failed(round.p) THEN Throw(round.p)
     ELSE /\ parser' = round.p
          /\ document' = [document EXCEPT !.doctype_declaration = round.v]
          /\ delivered' = Append(delivered, round.v)
          /\ UNCHANGED <<pc, scenario, xml_declaration_possible,
                         doctype_declaration_seen, root_seen, frames, c,
                         closed, returned>>

SubsetsMarkup == SubsetsMarkupRound(subsets_round)

\* What parse_doctype_declaration does when parse_dtd_subsets has returned:
\* [p, v], v the DTD.
parse_doctype_declaration_end(P, dtd, in_internal_subset) ==
  LET parsed == IF in_internal_subset
                  THEN Run("parse_doctype_declaration_loop", <<P, dtd, FALSE, FALSE>>)
                  ELSE Val(P, dtd)
      invalid == Run("validate_attribute_list_declarations", <<parsed.v>>)
  IN
  IF Failed(parsed.p) THEN parsed
  ELSE IF invalid # "" THEN ThrownVal(parsed.p, invalid)
  ELSE parsed

\* parse_dtd_subsets returns and parse_doctype_declaration ends.
SubsetsEndRound(round) ==
  /\ SubsetsLoop("end", round)
  /\ LET parsed == Run("parse_doctype_declaration_end", <<round.p, round.v, scenario.subset # "external">>)
     IN IF Failed(parsed.p) THEN Throw(parsed.p)
        ELSE /\ parser' = parsed.p
             /\ pc' = "declared"
             /\ doctype_declaration_seen' = TRUE
             /\ frames' = <<>>
             /\ UNCHANGED <<scenario, document, xml_declaration_possible,
                            root_seen, c, closed, delivered, returned>>

SubsetsEnd == SubsetsEndRound(subsets_round)

Next_Dtd ==
  \/ SubsetsUnexpected
  \/ SubsetsWhitespace
  \/ SubsetsExternal
  \/ SubsetsInstruction
  \/ SubsetsMarkup
  \/ SubsetsEnd

Spec_Dtd == Init_Dtd /\ [][Next_Dtd]_vars

(***************************************************************************)
(* The routines call one another, many of them in cycles (get reads a      *)
(* reference, which starts an entity, whose characters get reads), so a    *)
(* routine calls a routine through Run, which knows them all by name.      *)
(***************************************************************************)
Run(routine, a) ==
  CASE routine = "Txt" -> Txt(a)
    [] routine = "parse_utf8_continuation" ->
         parse_utf8_continuation(a[1], a[2], a[3])
    [] routine = "parse_utf8" ->
         parse_utf8(a[1])
    [] routine = "EntityStream_get" ->
         EntityStream_get(a[1])
    [] routine = "EntityStream_inc" ->
         EntityStream_inc(a[1])
    [] routine = "Parser_get" ->
         Parser_get(a[1])
    [] routine = "StackInc" ->
         StackInc(a[1], a[2])
    [] routine = "Parser_inc" ->
         Parser_inc(a[1])
    [] routine = "valid_name" ->
         valid_name(a[1], a[2])
    [] routine = "character_reference_digits" ->
         character_reference_digits(a[1], a[2], a[3], a[4], a[5])
    [] routine = "xml_parse_character_reference" ->
         xml_parse_character_reference(a[1], a[2])
    [] routine = "read_character_reference" ->
         read_character_reference(a[1], a[2])
    [] routine = "parse_character_reference" ->
         parse_character_reference(a[1])
    [] routine = "parse_general_entity_name" ->
         parse_general_entity_name(a[1], a[2])
    [] routine = "ExternalStream" ->
         ExternalStream(a[1], a[2], a[3], a[4])
    [] routine = "parse_general_entity" ->
         parse_general_entity(a[1], a[2], a[3], a[4])
    [] routine = "Parser_get_general" ->
         Parser_get_general(a[1], a[2], a[3])
    [] routine = "ignore_whitespace" ->
         ignore_whitespace(a[1])
    [] routine = "parse_parameter_entity_name" ->
         parse_parameter_entity_name(a[1], a[2])
    [] routine = "parse_parameter_entity" ->
         parse_parameter_entity(a[1], a[2], a[3], a[4])
    [] routine = "Parser_get_parameter" ->
         Parser_get_parameter(a[1], a[2], a[3], a[4], a[5])
    [] routine = "ignore_whitespace_parameter" ->
         ignore_whitespace_parameter(a[1], a[2])
    [] routine = "parse_name_loop" ->
         parse_name_loop(a[1], a[2], a[3], a[4])
    [] routine = "parse_name" ->
         parse_name(a[1], a[2], a[3], a[4], a[5])
    [] routine = "parse_general_entity_text" ->
         parse_general_entity_text(a[1], a[2], a[3], a[4])
    [] routine = "CollapseSpaces" ->
         CollapseSpaces(a[1], a[2])
    [] routine = "normalise_attribute_value" ->
         normalise_attribute_value(a[1])
    [] routine = "parse_attribute_value_loop" ->
         parse_attribute_value_loop(a[1], a[2], a[3], a[4], a[5], a[6])
    [] routine = "parse_attribute_value" ->
         parse_attribute_value(a[1], a[2], a[3], a[4])
    [] routine = "parse_attribute" ->
         parse_attribute(a[1], a[2], a[3], a[4], a[5])
    [] routine = "parse_end_tag_close" ->
         parse_end_tag_close(a[1])
    [] routine = "parse_tag_attributes" ->
         parse_tag_attributes(a[1], a[2], a[3], a[4])
    [] routine = "add_default_values" ->
         add_default_values(a[1], a[2], a[3])
    [] routine = "parse_tag" ->
         parse_tag(a[1], a[2])
    [] routine = "parse_comment_loop" ->
         parse_comment_loop(a[1], a[2])
    [] routine = "parse_comment" ->
         parse_comment(a[1])
    [] routine = "parse_cdata_loop" ->
         parse_cdata_loop(a[1], a[2], a[3], a[4])
    [] routine = "parse_cdata" ->
         parse_cdata(a[1])
    [] routine = "parse_processing_instruction_loop" ->
         parse_processing_instruction_loop(a[1], a[2], a[3])
    [] routine = "parse_processing_instruction" ->
         parse_processing_instruction(a[1], a[2])
    [] routine = "parse_id_literal" ->
         parse_id_literal(a[1], a[2], a[3], a[4])
    [] routine = "parse_public_or_system_id" ->
         parse_public_or_system_id(a[1], a[2])
    [] routine = "parse_public_id" ->
         parse_public_id(a[1])
    [] routine = "parse_system_id" ->
         parse_system_id(a[1])
    [] routine = "get_optional" ->
         get_optional(a[1], a[2])
    [] routine = "ignore_whitespace_optional" ->
         ignore_whitespace_optional(a[1], a[2])
    [] routine = "parse_external_id" ->
         parse_external_id(a[1], a[2])
    [] routine = "parse_entity_value_loop" ->
         parse_entity_value_loop(a[1], a[2], a[3], a[4], a[5])
    [] routine = "parse_entity_value" ->
         parse_entity_value(a[1], a[2])
    [] routine = "read_character_reference_text" ->
         read_character_reference_text(a[1], a[2], a[3])
    [] routine = "expand_character_references_from" ->
         expand_character_references_from(a[1], a[2], a[3], a[4])
    [] routine = "expand_character_references" ->
         expand_character_references(a[1], a[2])
    [] routine = "parse_external_general_entity" ->
         parse_external_general_entity(a[1], a[2], a[3])
    [] routine = "parse_general_entity_declaration" ->
         parse_general_entity_declaration(a[1], a[2])
    [] routine = "parse_parameter_entity_declaration" ->
         parse_parameter_entity_declaration(a[1], a[2])
    [] routine = "close_declaration" ->
         close_declaration(a[1], a[2], a[3])
    [] routine = "parse_entity_declaration" ->
         parse_entity_declaration(a[1], a[2])
    [] routine = "parse_attribute_declaration" ->
         parse_attribute_declaration(a[1], a[2], a[3])
    [] routine = "parse_attribute_declarations" ->
         parse_attribute_declarations(a[1], a[2], a[3])
    [] routine = "parse_attribute_list_declaration" ->
         parse_attribute_list_declaration(a[1], a[2])
    [] routine = "valid_nmtoken" ->
         valid_nmtoken(a[1])
    [] routine = "valid_names_or_nmtokens_from" ->
         valid_names_or_nmtokens_from(a[1], a[2], a[3], a[4])
    [] routine = "valid_names_or_nmtokens" ->
         valid_names_or_nmtokens(a[1], a[2])
    [] routine = "valid_names" ->
         valid_names(a[1])
    [] routine = "valid_nmtokens" ->
         valid_nmtokens(a[1])
    [] routine = "validate_default_attribute_value" ->
         validate_default_attribute_value(a[1], a[2])
    [] routine = "validate_attribute_list_declarations" ->
         validate_attribute_list_declarations(a[1])
    [] routine = "parse_markup_declaration" ->
         parse_markup_declaration(a[1], a[2])
    [] routine = "start_external_subset" ->
         start_external_subset(a[1], a[2])
    [] routine = "parse_subset_declaration" ->
         parse_subset_declaration(a[1], a[2], a[3], a[4])
    [] routine = "parse_subset_markup" ->
         parse_subset_markup(a[1], a[2], a[3], a[4])
    [] routine = "parse_dtd_subsets_loop" ->
         parse_dtd_subsets_loop(a[1], a[2], a[3], a[4], a[5])
    [] routine = "parse_dtd_subsets" ->
         parse_dtd_subsets(a[1], a[2], a[3], a[4])
    [] routine = "parse_doctype_declaration_loop" ->
         parse_doctype_declaration_loop(a[1], a[2], a[3], a[4])
    [] routine = "parse_doctype_declaration" ->
         parse_doctype_declaration(a[1])
    [] routine = "parse_xml_declaration_attribute" ->
         parse_xml_declaration_attribute(a[1], a[2], a[3])
    [] routine = "parse_xml_declaration_loop" ->
         parse_xml_declaration_loop(a[1], a[2], a[3], a[4], a[5])
    [] routine = "parse_xml_declaration" ->
         parse_xml_declaration(a[1], a[2])
    [] routine = "parse_required" ->
         parse_required(a[1], a[2])
    [] routine = "parse_element_section" ->
         parse_element_section(a[1], a[2], a[3])
    [] routine = "Documents" ->
         Documents
    [] routine = "Input" ->
         Input(a[1])
    [] routine = "Document" ->
         Document
    [] routine = "EolAlphabet" ->
         EolAlphabet
    [] routine = "read_character" ->
         read_character(a[1])
    [] routine = "parse_document_round" ->
         parse_document_round(a[1], a[2], a[3], a[4], a[5])
    [] routine = "parse_document_instruction" ->
         parse_document_instruction(a[1], a[2], a[3])
    [] routine = "parse_document_comment" ->
         parse_document_comment(a[1])
    [] routine = "parse_document_doctype" ->
         parse_document_doctype(a[1], a[2], a[3])
    [] routine = "parse_document_root" ->
         parse_document_root(a[1], a[2], a[3])
    [] routine = "parse_element_markup" ->
         parse_element_markup(a[1], a[2], a[3])
    [] routine = "match_name" ->
         match_name(a[1], a[2], a[3], a[4], a[5])
    [] routine = "all_of" ->
         all_of(a[1], a[2], a[3], a[4], a[5])
    [] routine = "any_of" ->
         any_of(a[1], a[2], a[3], a[4], a[5])
    [] routine = "match_group" ->
         match_group(a[1], a[2], a[3], a[4], a[5], a[6], a[7])
    [] routine = "valid_element_content_helper" ->
         valid_element_content_helper(a[1], a[2], a[3])
    [] routine = "validate_element_content" ->
         validate_element_content(a[1], a[2], a[3])
    [] routine = "ContentScenarios" ->
         ContentScenarios
    [] routine = "validate_scenario" ->
         validate_scenario(a[1])
    [] routine = "ValueAlphabet" ->
         ValueAlphabet
    [] routine = "ValueInput" ->
         ValueInput(a[1])
    [] routine = "parse_element_content_count" ->
         parse_element_content_count(a[1], a[2])
    [] routine = "parse_element_content_model_loop" ->
         parse_element_content_model_loop(a[1], a[2], a[3], a[4], a[5], a[6])
    [] routine = "parse_element_content_model" ->
         parse_element_content_model(a[1], a[2], a[3])
    [] routine = "parse_element_declaration_type" ->
         parse_element_declaration_type(a[1], a[2], a[3])
    [] routine = "parse_element_declaration" ->
         parse_element_declaration(a[1], a[2])
    [] routine = "parse_notation_declaration_close" ->
         parse_notation_declaration_close(a[1], a[2], a[3])
    [] routine = "parse_notation_declaration_public" ->
         parse_notation_declaration_public(a[1], a[2], a[3], a[4])
    [] routine = "parse_notation_declaration_id" ->
         parse_notation_declaration_id(a[1], a[2], a[3])
    [] routine = "parse_notation_declaration" ->
         parse_notation_declaration(a[1], a[2])
    [] routine = "validate_element_children" ->
         validate_element_children(a[1], a[2], a[3], a[4])
    [] routine = "validate_element" ->
         validate_element(a[1], a[2], a[3])
    [] routine = "validate_declared_attribute" ->
         validate_declared_attribute(a[1], a[2], a[3], a[4])
    [] routine = "validate_declared_attributes" ->
         validate_declared_attributes(a[1], a[2], a[3], a[4], a[5])
    [] routine = "validate_attributes_children" ->
         validate_attributes_children(a[1], a[2], a[3], a[4])
    [] routine = "validate_attributes" ->
         validate_attributes(a[1], a[2], a[3])
    [] routine = "parse_and_validate_ids_children" ->
         parse_and_validate_ids_children(a[1], a[2], a[3], a[4])
    [] routine = "parse_and_validate_ids" ->
         parse_and_validate_ids(a[1], a[2], a[3])
    [] routine = "validate_document" ->
         validate_document(a[1], a[2], a[3])
    [] routine = "DtdScenarios" ->
         DtdScenarios
    [] routine = "DtdInput" ->
         DtdInput(a[1])
    [] routine = "DtdStart" ->
         DtdStart(a[1])
    [] routine = "parse_dtd_subsets_round" ->
         parse_dtd_subsets_round(a[1], a[2], a[3])
    [] routine = "parse_doctype_declaration_end" ->
         parse_doctype_declaration_end(a[1], a[2], a[3])
    [] routine = "ReferenceScenarios" ->
         ReferenceScenarios
    [] routine = "StreamScenarios" ->
         StreamScenarios
    [] routine = "StreamInput" ->
         StreamInput(a[1])
    [] routine = "Utf8Scenarios" ->
         Utf8Scenarios
    [] routine = "Utf8Input" ->
         Utf8Input(a[1])
    [] routine = "ReferenceInput" ->
         ReferenceInput(a[1])
(***************************************************************************)
(* The properties.                                                         *)
(***************************************************************************)
\* The number of elements a document has at top level.
TopLevelElements(s) ==
  (IF s.root = "none" THEN 0 ELSE 1) + (IF s.trailer = "element" THEN 1 ELSE 0)

\* The number of DOCTYPE declarations a document has at top level.
TopLevelDoctypes(s) ==
  PrologDoctypes(s.prolog) + (IF s.trailer = "doctype" THEN 1 ELSE 0)

\* A document of whitespace, comments, processing instructions and at most
\* one DOCTYPE declaration, with no element.
NoRootDocument(s) ==
  /\ TopLevelElements(s) = 0
  /\ TopLevelDoctypes(s) <= 1

\* C1: parse_document returns only when exactly one element stands at top
\* level, and the tag of the root it returns is a start tag or an empty tag;
\* a document with no element (empty, or whitespace, comments, processing
\* instructions and a DOCTYPE declaration only) fails with the error that a
\* root element is expected, and a second element at top level fails.
C1_ExactlyOneRoot ==
  /\ pc = "done" =>
       /\ TopLevelElements(scenario) = 1
       /\ document.root.tag.type \in {"start", "empty"}
  /\ (pc = "fault" /\ NoRootDocument(scenario)) =>
       parser.err = "Expected a root element"

\* The names of a sequence are all different.
NoDuplicates(names) ==
  \A ii, jj \in 1..Len(names) : names[ii] = names[jj] => ii = jj

\* The entities of a prolog: name |-> literal.
EntityLiterals(prolog) ==
  IF prolog \in DOMAIN EntityTables
    THEN LET table == EntityTables[prolog] IN
         [name \in {table[ii][1] : ii \in 1..Len(table)} |->
            LET ii == CHOOSE ii \in 1..Len(table) : table[ii][1] = name
            IN table[ii][2]]
    ELSE <<>>

\* The entity the content of a root element refers to, for the contents that
\* refer to one.
ContentReference ==
  [ a |-> Run("Txt", <<"a">>), a_then_text |-> Run("Txt", <<"a">>),
    a_then_end |-> Run("Txt", <<"a">>),
    c |-> Run("Txt", <<"c">>), text_then_b |-> Run("Txt", <<"b">>),
      start_then_b |-> Run("Txt", <<"b">>),
    p |-> Run("Txt", <<"p">>), q |-> Run("Txt", <<"q">>) ]

\* The content of the root element refers to an entity whose replacement
\* text refers to itself, directly (table self) or through a chain of
\* entities (table cycle, where every entity leads into the cycle of b and c).
RecursiveReference(s) ==
  /\ s.prolog \in {"self", "cycle"}
  /\ s.root \in DOMAIN ContentReference
  /\ ContentReference[s.root] \in DOMAIN EntityLiterals(s.prolog)

\* C2: a reference to an entity whose replacement text refers to itself,
\* directly or through other entities, fails with the error of a recursive
\* self-reference: no entity is expanded inside its own replacement text, at
\* any depth, and no document with such a reference is accepted.
C2_RecursiveReferenceFails ==
  /\ \A ii \in 1..Len(parser.general_entity_stack) :
       NoDuplicates(parser.general_entity_stack[ii].chain)
  /\ RecursiveReference(scenario) =>
       /\ pc # "done"
       /\ pc = "fault" =>
            parser.err = "Entity recursive self-reference detected"

\* The characters the five built-in entities stand for.
PredefinedCharacter ==
  [ name \in { Run("Txt", <<"a", "m", "p">>), Run("Txt", <<"l", "t">>),
    Run("Txt", <<"g", "t">>), Run("Txt", <<"a", "p", "o", "s">>), Run("Txt",
    <<"q", "u", "o", "t">>) } |->
      CASE name = Run("Txt", <<"a", "m", "p">>) -> AMPERSAND
        [] name = Run("Txt", <<"l", "t">>) -> LEFT_ANGLE_BRACKET
        [] name = Run("Txt", <<"g", "t">>) -> RIGHT_ANGLE_BRACKET
        [] name = Run("Txt", <<"a", "p", "o", "s">>) -> SINGLE_QUOTE
        [] OTHER -> DOUBLE_QUOTE ]

RECURSIVE DigitsValue(_, _, _)
\* The number a string of digits of a base writes.
DigitsValue(digits, base, value) ==
  IF digits = <<>> THEN value
  ELSE LET ch == Head(digits)
           digit == IF ch >= 97 THEN ch - 97 + 10
                    ELSE IF ch >= 65 THEN ch - 65 + 10 ELSE ch - 48
       IN DigitsValue(Tail(digits), base, value * base + digit)

\* The character of a character reference, given the text between "&#" and
\* the semicolon.
ReferencedCharacter(digits) ==
  IF Head(digits) = 120 THEN DigitsValue(Tail(digits), 16, 0)
  ELSE DigitsValue(digits, 10, 0)

RECURSIVE Expansion(_, _)
\* Character data with every character reference decoded and every entity
\* reference replaced, recursively, by the replacement text of the entity.
Expansion(str, entities) ==
  IF str = <<>> THEN <<>>
  ELSE IF Head(str) # AMPERSAND
    THEN <<Head(str)>> \o Expansion(Tail(str), entities)
  ELSE
    LET semi == CHOOSE ii \in 2..Len(str) :
                  /\ str[ii] = SEMI_COLON
                  /\ \A jj \in 2..(ii - 1) : str[jj] # SEMI_COLON
        name == SubSeq(str, 2, semi - 1)
        rest == SubSeq(str, semi + 1, Len(str))
    IN (IF Head(name) = OCTOTHORPE
          THEN <<ReferencedCharacter(Tail(name))>>
        ELSE IF name \in DOMAIN PredefinedCharacter
          THEN <<PredefinedCharacter[name]>>
        ELSE Expansion(entities[name], entities))
       \o Expansion(rest, entities)

\* A document <r>content</r> whose content is character data with
\* references, every entity it refers to being declared, internal and not
\* recursive, with character data as its replacement text.
CharacterDataDocument(s) ==
  /\ s.root \in DOMAIN Contents
  /\ s.trailer = "none"
  /\ s.declaration = "none"
  /\ \/ s.prolog = "nested"
     \/ s.prolog = "none" /\ s.root \notin DOMAIN ContentReference

\* C3: the text of an element whose content is character data with references
\* to internal entities that are not recursive is the content with every
\* character reference decoded and every entity reference replaced,
\* recursively, by the replacement text of the entity; the five built-in
\* entities need no declaration.
C3_ElementText ==
  (CharacterDataDocument(scenario) /\ pc \in {"done", "fault"}) =>
    /\ pc = "done"
    /\ document.root.text =
         Expansion(Contents[scenario.root], EntityLiterals(scenario.prolog))

\* C4: an element is accepted only if its start tag and its end tag are read
\* from the same replacement text: the document itself for both, or the same
\* entity inside the same chain of references for both.
C4_SameReplacementText ==
  \A ii \in 1..Len(closed) : closed[ii].start_chain = closed[ii].end_chain

RECURSIVE ExternalDefaults(_)
\* The attributes of the tags of an element and of its descendants whose
\* value is a default declared inside an external entity.
ExternalDefaults(element) ==
  element.tag.external_defaults
    \cup UNION {ExternalDefaults(element.children[ii]) :
                  ii \in 1..Len(element.children)}

\* C9: in a document accepted with standalone="yes" no tag carries an
\* attribute whose value is a default declared in the external subset or in
\* an external parameter entity, whether the entity is referenced from the
\* internal subset or from the replacement text of an internal parameter
\* entity.
C9_StandaloneNoExternalDefault ==
  (pc = "done" /\ document.standalone) =>
    ExternalDefaults(document.root) = {}

\* C10: a document is accepted only if it has at most one DOCTYPE
\* declaration at top level and none after the root element: a second
\* DOCTYPE declaration fails, and so does one after the root element.
C10_DoctypeOnceBeforeRoot ==
  pc = "done" =>
    /\ TopLevelDoctypes(scenario) <= 1
    /\ scenario.trailer # "doctype"

\* A DOCTYPE declaration after the root element has been refused.
C10_DoctypeAfterRootRefused ==
  /\ pc = "fault"
  /\ root_seen
  /\ scenario.trailer = "doctype"
  /\ parser.err = "DOCTYPE declaration must precede root element"

RECURSIVE Ends(_, _, _), EndsOnce(_, _, _), EndsOfParts(_, _, _, _),
          EndsRepeated(_, _, _, _)
\* The language of a content model.  Ends(ecm, names, from) is the set of
\* positions where a match of the model with its occurrence indicator, begun
\* after the first from names, may end.
\* One occurrence: the name itself; every part of a sequence in order; one
\* part of a choice.
EndsOnce(ecm, names, from) ==
  IF ecm.is_name
    THEN IF from < Len(names) /\ names[from + 1] = ecm.name
           THEN {from + 1} ELSE {}
  ELSE IF ecm.is_sequence THEN EndsOfParts(ecm.parts, 1, names, {from})
  ELSE UNION {Ends(ecm.parts[ii], names, from) : ii \in 1..Len(ecm.parts)}

\* The parts of a sequence from part ii on, begun at one of the positions.
EndsOfParts(parts, ii, names, positions) ==
  IF ii > Len(parts) THEN positions
  ELSE EndsOfParts(parts, ii + 1, names,
                   UNION {Ends(parts[ii], names, from) : from \in positions})

\* Any number of further occurrences, at most rounds of them.
EndsRepeated(ecm, names, positions, rounds) ==
  IF rounds = 0 THEN positions
  ELSE EndsRepeated(ecm, names,
                    positions \cup UNION {EndsOnce(ecm, names, from) :
                                            from \in positions},
                    rounds - 1)

Ends(ecm, names, from) ==
  CASE ecm.count = "one" -> EndsOnce(ecm, names, from)
    [] ecm.count = "zero_or_one" -> {from} \cup EndsOnce(ecm, names, from)
    [] ecm.count = "zero_or_more" ->
         EndsRepeated(ecm, names, {from}, Len(names))
    [] ecm.count = "one_or_more" ->
         EndsRepeated(ecm, names, EndsOnce(ecm, names, from), Len(names))

\* The names, all of them, are in the language of the model.
InLanguage(ecm, names) == Len(names) \in Ends(ecm, names, 0)

\* C6: an element with children content is accepted only if the sequence of
\* the names of its children is in the language of the declared content
\* model, all children consumed: a sequence group is every part in order, a
\* choice group is one part, and ?, *, + bound the occurrences.
C6_ContentModelSound ==
  pc = "validated" =>
    InLanguage(ContentModels[scenario.model], scenario.children)

\* C7: an iteration of a group that matches without consuming a child
\* satisfies the maximum of the group for every occurrence indicator, so no
\* group fails because its iteration made no progress, and no sequence of
\* children in the language of the model is rejected after such an
\* iteration.
C7_NoProgressSatisfiesMaximum ==
  pc \in {"validated", "fault"} =>
    /\ "failed" \notin returned.stalled
    /\ (/\ returned.stalled # {}
        /\ InLanguage(ContentModels[scenario.model], scenario.children))
         => pc = "validated"

RECURSIVE CollapsedSpaces(_)
\* A value with every run of spaces collapsed to one space.
CollapsedSpaces(value) ==
  IF Len(value) < 2 THEN value
  ELSE IF value[1] = SPACE /\ value[2] = SPACE
    THEN CollapsedSpaces(Tail(value))
  ELSE <<value[1]>> \o CollapsedSpaces(Tail(value))

\* A value without its leading and trailing space.
Trimmed(value) ==
  LET from == IF value # <<>> /\ value[1] = SPACE THEN 2 ELSE 1
      to == IF Len(value) >= from /\ value[Len(value)] = SPACE
              THEN Len(value) - 1 ELSE Len(value)
  IN SubSeq(value, from, to)

\* The value of a literal without references for an attribute that is not
\* CDATA: each whitespace character replaced by a space, runs of spaces
\* collapsed to one, leading and trailing spaces removed.
NormalisedValue(literal) ==
  Trimmed(CollapsedSpaces([ii \in 1..Len(literal) |->
                             IF is_whitespace(literal[ii]) THEN SPACE
                             ELSE literal[ii]]))

\* C8: the value stored for an attribute that is not CDATA is the normalised
\* literal, for every literal: one of whitespace only gives the empty string
\* and no fault.
C8_NonCdataNormalisation ==
  /\ pc # "fault"
  /\ pc = "valued" => returned = NormalisedValue(scenario)

\* C5: the characters delivered from the main input are the input with each
\* CR LF and each lone CR replaced by one LF: nothing else is dropped, the
\* character after a CR is delivered, and reading an input that ends in CR or
\* CR LF does not fail.
C5_EndOfLineNormalisation ==
  /\ pc # "fault"
  /\ IsPrefix(delivered, NormaliseEol(parser.inp))
  /\ pc = "read" => delivered = NormaliseEol(parser.inp)

\* The positions of a text where a processing instruction with target xml
\* starts: "<?xml" followed by whitespace or by the closing question mark.
XmlInstructions(bytes) ==
  { ii \in 1..(Len(bytes) - 5) :
      /\ SubSeq(bytes, ii, ii + 4) = Run("Txt", <<"LT", "QM", "x", "m", "l">>)
      /\ is_whitespace(bytes[ii + 5]) \/ bytes[ii + 5] = QUESTION_MARK }

\* C11: a document is accepted only if every processing instruction with
\* target xml is the XML declaration at the very start of the input: one
\* preceded by whitespace, a comment, a processing instruction or a DOCTYPE
\* declaration, or standing inside the DOCTYPE declaration, inside the root
\* element or after it, makes the parse fail.
C11_XmlDeclarationFirst ==
  pc = "done" => XmlInstructions(Render(scenario)) \subseteq {1}

\* An XML declaration preceded by one space has been refused.
C11_DeclarationAfterSpaceRefused ==
  /\ pc = "fault"
  /\ scenario.prolog = "space_declaration"
  /\ scenario.declaration = "none"
  /\ parser.err = "Processing instruction target name must not start with 'xml' (case-insensitive)"

RECURSIVE Descendants(_, _)
\* The elements below the children from the ii-th on, in document order.
Descendants(children, ii) ==
  IF ii > Len(children) THEN <<>>
  ELSE <<children[ii]>> \o Descendants(children[ii].children, 1)
         \o Descendants(children, ii + 1)

\* The elements of a document in document order.
AllElements(doc) == <<doc.root>> \o Descendants(doc.root.children, 1)

\* The attributes an element carries that its DTD declares with one of the
\* types.
TypedAttributes(doc, element, types) ==
  LET lists == doc.doctype_declaration.attribute_list_declarations
      name == element.tag.name
  IN IF name \notin DOMAIN lists THEN {}
     ELSE { attribute \in DOMAIN element.tag.attributes \cap DOMAIN lists[name] :
              lists[name][attribute].type \in types }

\* The places of a document where an attribute of one of the types stands:
\* <<index of the element, name of the attribute>>.
TypedPlaces(doc, types) ==
  LET all == AllElements(doc) IN
  UNION { { <<ii, attribute>> :
              attribute \in TypedAttributes(doc, all[ii], types) } :
          ii \in 1..Len(all) }

\* The value of the attribute at a place.
ValueAt(doc, place) == AllElements(doc)[place[1]].tag.attributes[place[2]]

\* The words of a value: its longest stretches without a space.
Words(value) ==
  { SubSeq(value, ii, jj) : <<ii, jj>> \in
      { pair \in (1..Len(value)) \X (1..Len(value)) :
          /\ pair[1] <= pair[2]
          /\ \A kk \in pair[1]..pair[2] : value[kk] # SPACE
          /\ pair[1] = 1 \/ value[pair[1] - 1] = SPACE
          /\ pair[2] = Len(value) \/ value[pair[2] + 1] = SPACE } }

\* The ID values of a document.
IdValues(doc) == { ValueAt(doc, place) : place \in TypedPlaces(doc, {"id"}) }

\* No two ID attributes of the document have the same value.
IdsDistinct(doc) ==
  \A one, other \in TypedPlaces(doc, {"id"}) :
    one # other => ValueAt(doc, one) # ValueAt(doc, other)

\* Every IDREF value and every word of every IDREFS value is an ID value of
\* the document.
ReferencesResolve(doc) ==
  /\ \A place \in TypedPlaces(doc, {"idref"}) :
       ValueAt(doc, place) \in IdValues(doc)
  /\ \A place \in TypedPlaces(doc, {"idrefs"}) :
       Words(ValueAt(doc, place)) \subseteq IdValues(doc)

\* C12: with validate_attributes set, a document is accepted only if its ID
\* values are pairwise distinct over the whole document and every IDREF
\* value and every token of every IDREFS value is one of its ID values,
\* wherever in the document that ID stands.
C12_IdsDistinctReferencesResolve ==
  pc = "done" /\ scenario.validate_attributes
    => IdsDistinct(document) /\ ReferencesResolve(document)

\* A document has been accepted under validate_attributes whose IDREFS value
\* names two identifiers that stand later in the document.
C12_ForwardReferencesAccepted ==
  /\ pc = "done"
  /\ scenario.validate_attributes
  /\ \E place \in TypedPlaces(document, {"idrefs"}) :
       /\ Cardinality(Words(ValueAt(document, place))) = 2
       /\ \A id \in TypedPlaces(document, {"id"}) : id[1] > place[1]

\* The attribute list declared for an element, the empty map when none is.
DeclaredAttributes(doc, element) ==
  LET lists == doc.doctype_declaration.attribute_list_declarations IN
  IF element.tag.name \in DOMAIN lists THEN lists[element.tag.name]
  ELSE EmptyMap

\* Every attribute declared #REQUIRED for the element is present.
RequiredPresent(doc, element) ==
  LET ald == DeclaredAttributes(doc, element) IN
  \A name \in DOMAIN ald :
    ald[name].presence = "required" => name \in DOMAIN element.tag.attributes

\* Every #FIXED attribute the element carries has the declared default.
FixedUnchanged(doc, element) ==
  LET ald == DeclaredAttributes(doc, element) IN
  \A name \in DOMAIN ald \cap DOMAIN element.tag.attributes :
    ald[name].presence = "fixed"
      => element.tag.attributes[name] = ald[name].default_value

\* Every attribute the element carries is declared for it.
CarriedDeclared(doc, element) ==
  DOMAIN element.tag.attributes \subseteq DOMAIN DeclaredAttributes(doc, element)

\* C13: with validate_attributes set and a DOCTYPE declaration to validate
\* against, every element of an accepted document has each attribute that is
\* declared #REQUIRED for it, has the declared default as the value of each
\* #FIXED attribute it carries, and carries only attributes that its
\* attribute list declares (none when it has no attribute list).
C13_AttributePresence ==
  /\ pc = "done"
  /\ scenario.validate_attributes
  /\ document.doctype_declaration.exists
  => \A ii \in 1..Len(AllElements(document)) :
       /\ RequiredPresent(document, AllElements(document)[ii])
       /\ FixedUnchanged(document, AllElements(document)[ii])
       /\ CarriedDeclared(document, AllElements(document)[ii])

\* A document has been accepted under validate_attributes whose root has a
\* #REQUIRED and a #FIXED attribute and a child without an attribute list.
C13_DeclaredAttributesAccepted ==
  /\ pc = "done"
  /\ scenario.validate_attributes
  /\ \E name \in DOMAIN DeclaredAttributes(document, document.root) :
       DeclaredAttributes(document, document.root)[name].presence = "required"
  /\ \E name \in DOMAIN document.root.tag.attributes :
       /\ name \in DOMAIN DeclaredAttributes(document, document.root)
       /\ DeclaredAttributes(document, document.root)[name].presence = "fixed"
  /\ \E ii \in 1..Len(document.root.children) :
       DeclaredAttributes(document, document.root.children[ii]) = EmptyMap

\* The messages of the checks of the structure of elements, the check of
\* the name of the root among them.
ElementStructureErrors ==
  { "Root element name does not match declared root element name in DTD",
    "Undeclared element",
    "Element declared EMPTY but contains content",
    "Standalone document cannot have whitespace in element with element content",
    "Element with element content must have child elements only",
    "Element did not match element content model",
    "Element did not match mixed content model" }

\* The messages of the checks of the structure of attributes.
AttributeStructureErrors ==
  { "Repeated ID value",
    "Element with attribute must have ATTLIST declaration",
    "REQUIRED attribute",
    "does not match default value in element",
    "Attribute value must match Name",
    "Attribute value must match Names",
    "Attribute value must match Nmtoken",
    "Attribute value must match Nmtokens",
    "Attribute value must match one of the notation names",
    "Attribute value must match one of the enumeration values",
    "IDREF value must match an ID value in the document",
    "All IDREFS values must match an ID value in the document",
    "ENTITY value must match the name of a declared unparsed entity",
    "All ENTITIES values must match the name of a declared unparsed entity",
    "Undeclared attributes found in element" }

\* C14: a document is refused by a check of the structure of elements, the
\* check of the root name included, only if it has a DOCTYPE declaration and
\* validate_elements is set, and by a check of the structure of attributes
\* only if it has a DOCTYPE declaration and validate_attributes is set.
C14_ValidationGated ==
  /\ pc = "fault" /\ parser.err \in ElementStructureErrors
       => document.doctype_declaration.exists /\ scenario.validate_elements
  /\ pc = "fault" /\ parser.err \in AttributeStructureErrors
       => document.doctype_declaration.exists /\ scenario.validate_attributes

\* What the declarations of the subsets declare.
Declares(kind, name) == [kind |-> kind, name |-> name]

DeclaredBy ==
  [ general_a |-> Declares("general", Run("Txt", <<"a">>)),
    general_a_again |-> Declares("general", Run("Txt", <<"a">>)),
    parameter_p |-> Declares("parameter", Run("Txt", <<"p">>)),
    parameter_p_again |-> Declares("parameter", Run("Txt", <<"p">>)),
    attribute_k |-> Declares("attribute", Run("Txt", <<"k">>)),
    attribute_j_k |-> Declares("attribute", Run("Txt", <<"k">>)),
    element_r |-> Declares("element", Run("Txt", <<"r">>)),
    element_r_again |-> Declares("element", Run("Txt", <<"r">>)),
    notation_n |-> Declares("notation", Run("Txt", <<"n">>)),
    notation_n_again |-> Declares("notation", Run("Txt", <<"n">>)) ]

\* The declaration the next round of the loop reads, when the subset is one
\* whose every declaration takes one round.
NextDeclaration ==
  IF /\ pc = "dtd"
     /\ scenario.subset = "internal"
     /\ Len(delivered) < Len(scenario.declarations)
     /\ scenario.declarations[Len(delivered) + 1] \in DOMAIN DeclaredBy
     /\ \A ii \in 1..Len(delivered) :
          scenario.declarations[ii] \in DOMAIN DeclaredBy \cup {"instruction", "comment"}
    THEN DeclaredBy[scenario.declarations[Len(delivered) + 1]]
    ELSE Declares("none", <<>>)

\* The names a DTD has a declaration of the kind for.
DeclaredNames(dtd, kind) ==
  CASE kind = "general" -> DOMAIN dtd.general_entities
    [] kind = "parameter" -> DOMAIN dtd.parameter_entities
    [] kind = "attribute" ->
         UNION { DOMAIN dtd.attribute_list_declarations[element] :
                   element \in DOMAIN dtd.attribute_list_declarations }
    [] kind = "element" -> DOMAIN dtd.element_declarations
    [] kind = "notation" -> DOMAIN dtd.notation_declarations
    [] OTHER -> {}

\* Every declaration of an entity and of an attribute that old stores, new
\* stores unchanged.
StoredKept(old, new) ==
  /\ \A name \in DOMAIN old.general_entities :
       /\ name \in DOMAIN new.general_entities
       /\ new.general_entities[name] = old.general_entities[name]
  /\ \A name \in DOMAIN old.parameter_entities :
       /\ name \in DOMAIN new.parameter_entities
       /\ new.parameter_entities[name] = old.parameter_entities[name]
  /\ \A element \in DOMAIN old.attribute_list_declarations :
       /\ element \in DOMAIN new.attribute_list_declarations
       /\ \A name \in DOMAIN old.attribute_list_declarations[element] :
            /\ name \in DOMAIN new.attribute_list_declarations[element]
            /\ new.attribute_list_declarations[element][name]
                 = old.attribute_list_declarations[element][name]

\* What C15 says of one round of the loop of parse_dtd_subsets.
RedeclarationStep ==
  LET next == NextDeclaration
      dtd == document.doctype_declaration
      again == next.name \in DeclaredNames(dtd, next.kind)
  IN
  /\ pc = "dtd" => StoredKept(dtd, document'.doctype_declaration)
  /\ next.kind \in {"general", "parameter", "attribute"}
       => /\ pc' # "fault"
          /\ next.name \in DeclaredNames(document'.doctype_declaration, next.kind)
  /\ next.kind \in {"element", "notation"} => (pc' = "fault" <=> again)

\* C15: a declaration of a general entity, of a parameter entity or of an
\* attribute of an element never changes a declaration that is stored, so
\* the stored one is the first; when the name has a declaration already the
\* new one is dropped without an error; a second <!ELEMENT> and a second
\* <!NOTATION> of a name make the parse fail.
C15_FirstDeclarationWins == [][RedeclarationStep]_vars

\* An attribute has been declared twice, the second time in a list with an
\* attribute that is new, and the DTD stores its first declaration and the
\* new attribute.
C15_RedeclarationsDropped ==
  /\ pc = "declared"
  /\ \E ii, jj \in 1..Len(scenario.declarations) :
       /\ ii < jj
       /\ scenario.declarations[ii] = "attribute_k"
       /\ scenario.declarations[jj] = "attribute_j_k"
  /\ document.doctype_declaration.attribute_list_declarations[Run("Txt",
    <<"r">>)][Run("Txt", <<"k">>)].type = "cdata"
  /\ document.doctype_declaration.attribute_list_declarations[Run("Txt",
    <<"r">>)][Run("Txt", <<"k">>)].default_value = Run("Txt", <<"v">>)
  /\ Run("Txt", <<"j">>) \in DOMAIN
    document.doctype_declaration.attribute_list_declarations[Run("Txt",
    <<"r">>)]

\* The declarations of a subset in the order the parser reads them.
SubsetDeclarations(s) == s.declarations \o s.external

\* A part of the literal of an entity value: text, a character reference, a
\* parameter entity reference or a general entity reference.  value is what
\* the part stands for, the name of the entity for the references.
Part(kind, value) == [kind |-> kind, value |-> value]

\* The literals of the entity declarations of the subsets.
LiteralOf ==
  [ value_plain |-> << Part("text", Run("Txt", <<"D1">>)), Part("character",
    Run("Txt", <<"A">>)),
                       Part("general", Run("Txt", <<"b">>)), Part("text",
                         Run("Txt", <<"SQ", "D2">>)) >>,
    value_q |-> << Part("text", Run("Txt", <<"D1">>)), Part("parameter",
      Run("Txt", <<"q">>)),
                   Part("text", Run("Txt", <<"D2">>)) >>,
    value_q_last |-> << Part("text", Run("Txt", <<"D1">>)),
      Part("parameter", Run("Txt", <<"q">>)) >>,
    value_q_twice |-> << Part("parameter", Run("Txt", <<"q">>)),
                         Part("parameter", Run("Txt", <<"q">>)) >>,
    value_t |-> << Part("parameter", Run("Txt", <<"t">>)) >> ]

\* The parameter entities a literal refers to.
ReferredTo(parts) ==
  { parts[ii].value : ii \in { jj \in 1..Len(parts) : parts[jj].kind = "parameter" } }

RECURSIVE EntityValue(_, _)
\* The value of a literal as C16 has it: text and decoded characters as
\* they are, the replacement text of a parameter entity in place of a
\* reference to it, a reference to a general entity as it is written.
EntityValue(parts, parameter_entities) ==
  IF parts = <<>> THEN <<>>
  ELSE (CASE Head(parts).kind = "parameter" ->
               parameter_entities[Head(parts).value].value
          [] Head(parts).kind = "general" ->
               Cat(<< Run("Txt", <<"AMP">>), Head(parts).value, Run("Txt",
                 <<"SEMI">>) >>)
          [] OTHER -> Head(parts).value)
       \o EntityValue(Tail(parts), parameter_entities)

\* The entity v of a DTD, which the declarations with a literal declare.
EntityV(dtd, id) ==
  IF id = "value_q_twice" THEN dtd.parameter_entities[Run("Txt", <<"v">>)]
  ELSE dtd.general_entities[Run("Txt", <<"v">>)]

\* The DTD before the declaration at a place of the subset is read.
DtdBefore(place) ==
  IF place = 1 THEN DtdStart(scenario) ELSE delivered[place - 1]

\* C16: a declaration of an entity whose literal refers to declared
\* parameter entities only is read without an error, and the value stored
\* is the literal with each character reference decoded, each parameter
\* entity reference replaced by the replacement text of the entity with
\* nothing added, and each general entity reference kept as written; a
\* quote in the replacement text of a parameter entity and the other quote
\* are data.
C16_EntityValueLiteral ==
  pc \in {"dtd", "declared", "fault"} /\ scenario.subset # "both"
  => \A place \in 1..Len(SubsetDeclarations(scenario)) :
       LET id == SubsetDeclarations(scenario)[place] IN
       /\ id \in DOMAIN LiteralOf
       /\ Len(delivered) >= place - 1
       /\ \A ii \in 1..(place - 1) : SubsetDeclarations(scenario)[ii] # "reference_d"
       /\ ReferredTo(LiteralOf[id]) \subseteq DOMAIN DtdBefore(place).parameter_entities
       => /\ ~(pc = "fault" /\ Len(delivered) = place - 1)
          /\ Len(delivered) >= place
               => EntityV(delivered[place], id).value
                    = EntityValue(LiteralOf[id], DtdBefore(place).parameter_entities)

\* The attribute k of element r is declared with type CDATA.
AttributeKDeclared(dtd) ==
  /\ Run("Txt", <<"r">>) \in DOMAIN dtd.attribute_list_declarations
  /\ Run("Txt", <<"k">>) \in DOMAIN
    dtd.attribute_list_declarations[Run("Txt", <<"r">>)]
  /\ dtd.attribute_list_declarations[Run("Txt", <<"r">>)][Run("Txt",
    <<"k">>)].type = "cdata"

\* C17: a parameter entity reference inside a markup declaration is refused
\* only when it is read from the internal subset itself, and is always
\* refused there; in the external subset and in the replacement text of a
\* parameter entity it is expanded, and so is a reference between
\* declarations and one in an entity value.
C17_ParameterEntityInMarkup ==
  /\ pc = "fault" /\ parser.err = "Parameter entity disallowed inside markup in internal DTD."
       => /\ parser.parameter_entity_stack = <<>>
          /\ \E ii \in 1..Len(scenario.declarations) :
               scenario.declarations[ii] = "attribute_t"
  /\ pc = "declared"
       => \A ii \in 1..Len(scenario.declarations) :
            scenario.declarations[ii] # "attribute_t"
  /\ pc = "declared" /\ (\E ii \in 1..Len(SubsetDeclarations(scenario)) :
                           SubsetDeclarations(scenario)[ii] \in {"attribute_t", "reference_d"})
       => AttributeKDeclared(document.doctype_declaration)

(***************************************************************************)
(* Character references.                                                   *)
(***************************************************************************)
\* The reference of the scenario is in base 16.
ReferenceHex == scenario.reference # <<>> /\ scenario.reference[1] =
  Run("Txt", <<"x">>)[1]

\* Its digits: what follows the x, or all of it.
ReferenceDigits ==
  IF ReferenceHex THEN Tail(scenario.reference) ELSE scenario.reference

\* The value of a digit of base 10 or 16, -1 for any other character.
DigitValue(ch, hex) ==
  IF ch >= 48 /\ ch <= 57 THEN ch - 48
  ELSE IF hex /\ ch >= 97 /\ ch <= 102 THEN ch - 87
  ELSE IF hex /\ ch >= 65 /\ ch <= 70 THEN ch - 55
  ELSE -1

RECURSIVE NumberOf(_, _, _)
\* The number a digit sequence denotes, or 1114112 if it denotes more.
NumberOf(digits, hex, number) ==
  IF digits = <<>> THEN number
  ELSE LET next == number * (IF hex THEN 16 ELSE 10) + DigitValue(Head(digits), hex)
       IN NumberOf(Tail(digits), hex, IF next > 1114111 THEN 1114112 ELSE next)

\* The production Char of XML.
IsChar(ch) ==
  \/ ch \in {9, 10, 13}
  \/ ch >= 32 /\ ch <= 55295
  \/ ch >= 57344 /\ ch <= 65533
  \/ ch >= 65536 /\ ch <= 1114111

\* The reference of the scenario is one or more digits of its base that
\* denote a Char.
ReferenceDenotesChar ==
  /\ ReferenceDigits # <<>>
  /\ \A ii \in 1..Len(ReferenceDigits) : DigitValue(ReferenceDigits[ii], ReferenceHex) >= 0
  /\ IsChar(NumberOf(ReferenceDigits, ReferenceHex, 0))

\* C18: a character reference of decimal digits, or of x and hexadecimal
\* digits, decodes to the code point the digits denote, leading zeros
\* allowed; the call fails when there is no digit, when a character is not
\* a digit of the base, when the number is above 0x10FFFF however many
\* digits it has, and when the code point is not a Char.
C18_CharacterReferenceDecoding ==
  /\ pc = "decoded" =>
       /\ ReferenceDenotesChar
       /\ returned = NumberOf(ReferenceDigits, ReferenceHex, 0)
  /\ pc = "fault" => ~ReferenceDenotesChar

(***************************************************************************)
(* The type of the exceptions.                                             *)
(***************************************************************************)
\* What leaves the parser without being an XmlError: the exceptions of the
\* standard library and a fault of the process.
OtherThanXmlError == {"std::out_of_range", "std::length_error", "SIGSEGV"}

\* C19: whenever parsing fails, what is thrown is an XmlError; no exception
\* of another type and no fault leaves the parser, also not for a built-in
\* entity declared with a value that ends in & or for a default value of
\* spaces only.
C19_OnlyXmlErrorEscapes ==
  pc = "fault" => parser.err \notin OtherThanXmlError

(***************************************************************************)
(* The literals of attribute values.                                       *)
(***************************************************************************)
\* The replacement text of an entity of the prolog of the scenario.
QuotedEntity(name) ==
  (CHOOSE pair \in Range(EntityTables[scenario.prolog]) : pair[1] = name)[2]

\* The root element of the scenario is a reference to an entity that bears
\* the tag.
TagBorne == QuotedElements[scenario.root][3] = RIGHT_ANGLE_BRACKET

\* The text the tag with the attribute k is read from: the document, or the
\* replacement text of the entity.
TagText ==
  IF TagBorne THEN QuotedEntity(<<QuotedElements[scenario.root][5]>>)
  ELSE QuotedElements[scenario.root]

\* The place of the first character of a text, from a place on, that is one
\* of the characters.
FirstOf(text, from, chars) ==
  CHOOSE ii \in from..Len(text) :
    /\ text[ii] \in chars
    /\ \A jj \in from..(ii - 1) : text[jj] \notin chars

\* The literal of a tag: from its first quote to the next quote of that
\* kind in the text of the tag itself.
TagLiteral(text) ==
  LET open == FirstOf(text, 1, {SINGLE_QUOTE, DOUBLE_QUOTE})
      close == FirstOf(text, open + 1, {text[open]})
  IN SubSeq(text, open + 1, close - 1)

RECURSIVE Replaced(_)
\* A text with every reference to an entity replaced by the replacement
\* text of the entity, references in it replaced likewise.
Replaced(text) ==
  IF text = <<>> THEN <<>>
  ELSE IF Head(text) # AMPERSAND THEN <<Head(text)>> \o Replaced(Tail(text))
  ELSE LET semi == FirstOf(text, 1, {SEMI_COLON}) IN
       Replaced(QuotedEntity(SubSeq(text, 2, semi - 1)))
         \o Replaced(SubSeq(text, semi + 1, Len(text)))

\* The element the tag is parsed to.
QuotedElement == IF TagBorne THEN document.root.children[1] ELSE document.root

\* C20: the literal of an attribute value ends at the first quote of its
\* kind that stands in the text the tag itself stands in, the document or
\* the replacement text of an entity; a quote that comes from an entity
\* referred to inside the literal is part of the value.  So the document
\* is accepted and the value is the literal with its references replaced.
C20_LiteralClosedAtOwnDepth ==
  scenario.root \in DOMAIN QuotedElements /\ pc \in {"done", "fault"} =>
    /\ pc = "done"
    /\ QuotedElement.tag.attributes[Run("Txt", <<"k">>)] =
      Replaced(TagLiteral(TagText))

(***************************************************************************)
(* The normalisation of the values of attributes that are not tokenized.   *)
(***************************************************************************)
\* The literal of the attribute k of the documents of SpacedDocuments.
SpacedLiteral == Run("Txt", <<"SP", "a", "SP", "TAB", "b", "SP">>)

\* A text with every whitespace character replaced by a space.
SpacesFor(text) ==
  [ii \in 1..Len(text) |-> IF text[ii] \in Range(WHITESPACE) THEN SPACE ELSE text[ii]]

\* The attribute k of the root element is not declared, or is declared with
\* the type CDATA.
UndeclaredOrCdata ==
  LET lists == document.doctype_declaration.attribute_list_declarations IN
  \/ Run("Txt", <<"r">>) \notin DOMAIN lists
  \/ Run("Txt", <<"k">>) \notin DOMAIN lists[Run("Txt", <<"r">>)]
  \/ lists[Run("Txt", <<"r">>)][Run("Txt", <<"k">>)].type = "cdata"

\* C21: the value of an attribute that is not declared, or is declared
\* with the type CDATA, is its literal with every whitespace character
\* replaced by a space and nothing else changed, in a start tag and as a
\* declared default value: spaces at the ends and runs of spaces stay.
C21_CdataValueKeepsSpaces ==
  scenario \in SpacedDocuments /\ pc \in {"done", "fault"} /\ UndeclaredOrCdata =>
    /\ pc = "done"
    /\ document.root.tag.attributes[Run("Txt", <<"k">>)] =
      SpacesFor(SpacedLiteral)

(***************************************************************************)
(* The entity stacks, the sets of names of the entities in progress and    *)
(* the "entity active" flags.                                              *)
(***************************************************************************)
\* The names of the streams of a stack, without the stream of the external
\* subset, which has no name.
NamesOn(stack) == {stack[ii].name : ii \in 1..Len(stack)} \ {<<>>}

\* No name is the name of two streams of a stack.
NoNameTwice(stack) ==
  \A ii, jj \in 1..Len(stack) :
    stack[ii].name # <<>> /\ stack[ii].name = stack[jj].name => ii = jj

BuiltInIds ==
  {"builtin_lt", "builtin_lt_plain", "builtin_apos", "builtin_amp_open",
   "builtin_gt_open", "builtin_quot_unclosed", "builtin_quot",
   "builtin_gt_plain", "builtin_gt_trail", "builtin_lt_trail",
   "builtin_apos_trail", "builtin_quot_twice"}

\* The character each built-in entity stands for.
BuiltInCharacter ==
  { <<Run("Txt", <<"l", "t">>), Run("Txt", <<"LT">>)>>, <<Run("Txt", <<"g",
    "t">>), Run("Txt", <<"GT">>)>>, <<Run("Txt", <<"a", "m", "p">>),
    Run("Txt", <<"AMP">>)>>,
    <<Run("Txt", <<"a", "p", "o", "s">>), Run("Txt", <<"SQ">>)>>,
      <<Run("Txt", <<"q", "u", "o", "t">>), Run("Txt", <<"DQ">>)>> }

\* The name a declaration of a general entity declares.
DeclaredName(text) == SubSeq(text, 10, FirstOf(text, 10, {SPACE}) - 1)

\* The literal of a declaration of a general entity with a literal in
\* double quotes.
DeclaredLiteral(text) ==
  SubSeq(text, FirstOf(text, 1, {DOUBLE_QUOTE}) + 1, Len(text) - 2)

RECURSIVE Expanded(_)
\* A text with each decimal character reference replaced by its character
\* and every other character kept.
Expanded(text) ==
  IF text = <<>> THEN <<>>
  ELSE IF /\ Len(text) >= 2 /\ text[1] = AMPERSAND /\ text[2] = OCTOTHORPE
          /\ SEMI_COLON \in Range(text)
    THEN LET end == FirstOf(text, 1, {SEMI_COLON}) IN
         <<NumberOf(SubSeq(text, 3, end - 1), FALSE, 0)>>
           \o Expanded(SubSeq(text, end + 1, Len(text)))
  ELSE <<Head(text)>> \o Expanded(Tail(text))

\* The declaration is of the character of the entity it names, and for lt
\* and amp it is so only with the reference itself escaped.
DeclaresItself(text) ==
  LET literal == DeclaredLiteral(text)
      character == (CHOOSE pair \in BuiltInCharacter : pair[1] = DeclaredName(text))[2]
  IN /\ Expanded(Expanded(literal)) = character
     /\ DeclaredName(text) \in {Run("Txt", <<"l", "t">>), Run("Txt", <<"a",
       "m", "p">>)} => Expanded(literal) # character

\* C23: a subset that declares a built-in entity is accepted only if the
\* literal of the declaration, with every character reference expanded and
\* every other character kept, is the character of the entity, and for lt
\* and amp only if it is so in double-escaped form; a literal with text
\* after the reference is refused.
C23_BuiltInDeclaresItself ==
  pc = "declared" =>
    \A place \in 1..Len(SubsetDeclarations(scenario)) :
      LET id == SubsetDeclarations(scenario)[place] IN
      id \in BuiltInIds => DeclaresItself(DtdDeclarations[id])

(***************************************************************************)
(* Attribute values of several tokens.                                     *)
(***************************************************************************)
\* The places first..last of a value are one of its tokens: no space within,
\* and a space or an end of the value on either side.
TokenAt(value, first, last) ==
  /\ first <= last
  /\ \A ii \in first..last : value[ii] # SPACE
  /\ first = 1 \/ value[first - 1] = SPACE
  /\ last = Len(value) \/ value[last + 1] = SPACE

\* Every token of a value of the type is a Name (IDREFS, ENTITIES) or an
\* Nmtoken (NMTOKENS), and there is at least one.
EveryTokenValid(value, type) ==
  /\ value # <<>>
  /\ \A first, last \in 1..Len(value) :
       TokenAt(value, first, last) =>
         IF type = "nmtokens"
           THEN Run("valid_nmtoken", <<SubSeq(value, first, last)>>)
           ELSE Run("valid_name", <<SubSeq(value, first, last), TRUE>>)

\* C24: in a document accepted with attributes validated, the value of an
\* attribute of type IDREFS, ENTITIES or NMTOKENS and the default value
\* declared for it are made of valid tokens only, the last one included.
C24_EveryTokenValidated ==
  scenario \in TokenDocuments /\ pc = "done" =>
    LET ad ==
      document.doctype_declaration.attribute_list_declarations[Run("Txt",
      <<"r">>)][Run("Txt", <<"k">>)] IN
    /\ EveryTokenValid(document.root.tag.attributes[Run("Txt", <<"k">>)],
      ad.type)
    /\ ad.has_default_value => EveryTokenValid(ad.default_value, ad.type)

(***************************************************************************)
(* The flags is_empty and children_only of an element.                     *)
(***************************************************************************)
\* The kinds of the pieces of the content of the root element.
FlagKinds ==
  {FlagContents[scenario.root][ii][1] : ii \in 1..Len(FlagContents[scenario.root])}

\* C25: children_only of a parsed element is true exactly when its content
\* is made of child elements and whitespace only: a comment clears it, as a
\* CDATA section, a processing instruction, text that is not whitespace and
\* a character reference do; is_empty is true exactly when there is no
\* content of any kind.
C25_ContentFlags ==
  scenario \in FlagDocuments /\ pc = "done" =>
    /\ document.root.children_only <=> FlagKinds \subseteq {"child", "space"}
    /\ document.root.is_empty <=> FlagKinds = {}

(***************************************************************************)
(* The elements declared with children content.                            *)
(***************************************************************************)
\* The root element of the document and its children.
RootAndChildren == {document.root} \cup Range(document.root.children)

\* C26: in a document accepted with a DOCTYPE declaration and the structure
\* of the elements validated, every element declared with children content
\* has children_only true and a text of whitespace only, and an empty text
\* when the document is standalone.
C26_ChildrenContentElements ==
  scenario \in ModelDocuments /\ pc = "done" =>
    \A element \in RootAndChildren :
      document.doctype_declaration.element_declarations[element.tag.name].type = "children"
      => /\ element.children_only
         /\ Range(element.text) \subseteq Range(WHITESPACE)
         /\ document.standalone => element.text = <<>>

\* An element with children content, whitespace and a comment is accepted.
C26_Witness ==
  /\ scenario \in ModelDocuments /\ pc = "done"
  /\ scenario.root = "child_comment_space"
  /\ document.doctype_declaration.element_declarations[Run("Txt",
    <<"r">>)].type = "children"
  /\ document.root.text # <<>>


(***************************************************************************)
(* The characters of the stream of a parameter entity.                     *)
(***************************************************************************)
\* What the stream of a scenario is to deliver: the replacement text, with
\* a space before and after it outside an entity value.
Replacement(s) ==
  IF s.in_entity_value THEN s.text ELSE <<SPACE>> \o s.text \o <<SPACE>>

\* C27: the characters read from the stream of a parameter entity, internal
\* or external, are a space, the characters of the replacement text and a
\* space when the entity is included outside an entity value, and the
\* replacement text alone inside one; the stream is at its end when all of
\* them are read and not before.
C27_StreamCharacters ==
  /\ pc # "fault"
  /\ pc = "stream" =>
       /\ Len(returned) < Len(Replacement(scenario))
       /\ returned = SubSeq(Replacement(scenario), 1, Len(returned))
  /\ pc = "ended" => returned = Replacement(scenario)

(***************************************************************************)
(* The UTF-8 decoder.                                                      *)
(***************************************************************************)
RECURSIVE OneBits(_, _)
\* The number of one bits a byte starts with, bit being the value of the
\* bit to look at first.
OneBits(byte, bit) ==
  IF bit < 1 \/ byte < bit THEN 0 ELSE 1 + OneBits(byte - bit, bit \div 2)

\* A byte of the form 10xxxxxx.
IsContinuation(byte) == OneBits(byte, 128) = 1

\* The bytes start with a well formed sequence of more than one byte: a
\* lead byte with 2 to 4 leading one bits and as many bytes in all, each
\* following byte of the form 10xxxxxx.
WellFormedSequence(bytes) ==
  LET length == OneBits(bytes[1], 128) IN
  /\ length \in 2..4
  /\ Len(bytes) >= length
  /\ \A ii \in 2..length : IsContinuation(bytes[ii])

\* C28: the decoder returns a character for input that starts with a byte
\* with its top bit set only if the input starts with a well formed
\* sequence; a lead byte 10xxxxxx, a lead byte with 5 or more leading one
\* bits, a truncated sequence and a following byte 0xxxxxxx or 11xxxxxx are
\* refused.
C28_WellFormedOnly ==
  pc = "decoded" /\ scenario.bytes[1] >= 128 => WellFormedSequence(scenario.bytes)

(***************************************************************************)
(* The termination of the content-model matcher.                           *)
(***************************************************************************)
\* The step ends an iteration of the loop of the call in frame ii.
IterationEnded(ii) ==
  /\ ii \in 2..Len(frames)
  /\ ii <= Len(frames')
  /\ IF frames[ii].ecm.is_name
       THEN frames'[ii].count # frames[ii].count
       ELSE frames[ii].at = "parts" /\ frames'[ii].at # "parts"

\* The iteration that the step ends in frame ii consumed a child.
ChildConsumed(ii) ==
  IF frames[ii].ecm.is_name
    THEN frames'[1].pos > frames[1].pos
    ELSE frames[1].pos > frames[ii].previous_pos /\ frames'[ii].at = "loop"

\* Every iteration of a loop of the matcher consumes a child or ends the
\* loop.
IterationsProgress ==
  [][\A ii \in 2..Len(frames) :
       IterationEnded(ii) => ChildConsumed(ii) \/ frames'[ii].at = "over"]_vars

\* C29: the matcher terminates for every content model and every sequence
\* of children, the models whose groups match the empty sequence under * or
\* + included: every iteration of a loop consumes a child or ends the loop,
\* and the outermost call returns.
C29_MatcherTerminates == IterationsProgress /\ <>(pc = "matched")

\* (a*, b*)+ has matched the children a, b: the second iteration of the
\* group matched nothing and ended the loop.
C29_Witness ==
  /\ pc = "matched"
  /\ scenario.model = "repeated_any_pair"
  /\ scenario.children = <<Run("Txt", <<"a">>), Run("Txt", <<"b">>)>>
  /\ returned.ok
  /\ Pos = 2

(***************************************************************************)
(* References to entities without replacement text.                        *)
(***************************************************************************)
\* The declarations whose literal refers to the parameter entity q.
RefersToQ == {"value_q", "value_q_last", "value_q_twice"}

RECURSIVE TextParts(_)
\* The text of a literal outside its references to parameter entities.
TextParts(parts) ==
  IF parts = <<>> THEN <<>>
  ELSE (IF Head(parts).kind = "parameter" THEN <<>> ELSE Head(parts).value)
       \o TextParts(Tail(parts))

\* C30: after <!ENTITY % q "">, a declaration of an entity whose literal
\* refers to q is read without an error, and the references to q add no
\* character to the value of the entity.
C30_EmptyParameterEntity ==
  /\ pc \in {"dtd", "declared", "fault"}
  /\ scenario.subset # "both"
  /\ Len(SubsetDeclarations(scenario)) >= 2
  /\ SubsetDeclarations(scenario)[1] = "empty_q"
  /\ SubsetDeclarations(scenario)[2] \in RefersToQ
  /\ Len(delivered) >= 1
  => /\ ~(pc = "fault" /\ Len(delivered) = 1)
     /\ Len(delivered) >= 2
          => EntityV(delivered[2], SubsetDeclarations(scenario)[2]).value
               = TextParts(LiteralOf[SubsetDeclarations(scenario)[2]])

====
